---- MODULE Spec2Model ----
(***************************************************************************)
(* goscore: the scoreboard's up-time accounting (Host / Service SetUp,     *)
(* GetUptime, GetDowntime), the probe tasks (PingHost, CheckService), the  *)
(* probe loops (PingChecker, ServiceChecker), the reconciliation loop      *)
(* (StateUpdater) with its read/write lock discipline over serviceLock,    *)
(* the renderer loop (WebContentUpdater) and the competition end timer.    *)
(* Time is a discrete clock; one unit is one second.                       *)
(***************************************************************************)
EXTENDS Integers, Sequences, FiniteSets, TLC

VARIABLES
    now,              \* time.Now(), in seconds since the process started
    hosts,            \* State.Hosts
    Config,           \* State.Config (the fields the core uses)
    serviceLock,      \* State.serviceLock, a sync.RWMutex
    updateChannel,    \* chan ServiceUpdate, capacity 10
    updateSignal,     \* newUpdateSignal, chan bool of capacity 1 (number of queued values)
    shutdownSignals,  \* the four shutdown channels of capacity 1 (number of queued values)
    pcMain,           \* position of Start()
    timer,            \* the time.AfterFunc end timer: position and time left until it fires
    pingChecker,      \* PingChecker: position and what is left of its sleep
    serviceChecker,   \* ServiceChecker: position and what is left of its sleep
    pcUpdater,        \* StateUpdater: position
    updaterSleep,      \* StateUpdater: what is left of its time.Sleep
    isWriteLocked,    \* StateUpdater local flag
    isReadLocked,     \* StateUpdater local flag
    update,           \* StateUpdater local: the ServiceUpdate being processed
    web,              \* WebContentUpdater: position, what is left of its sleep, its data
    inflight,         \* probe tasks launched and not yet returned, per target
    burstWriteLocks,  \* write-lock acquisitions of StateUpdater since it last was Idle
    trackerCall,      \* TrackerSpec: per entity, the last SetUp call (argument, time, fields before)
    obs,              \* TrackerSpec: an earlier observation of every entity's uptime/downtime
    lastDequeued,     \* per entity, the IsUp of the last result StateUpdater dequeued for it
    batch,            \* BatchSpec: the results of the batch StateUpdater is given
    check,            \* CheckServiceSpec: one CheckService call, its service and its progress
    yamlConfig,       \* the YamlConfig that initConfig decoded from the config file
    mult,             \* MultiplierSpec: a Multiplier, its channels and its sender goroutines
    probes            \* RaceSpec: the CheckService tasks by launch round, what they observed, their send order

vars == << now, hosts, Config, serviceLock, updateChannel, updateSignal,
           shutdownSignals, pcMain, timer, pingChecker, serviceChecker,
           pcUpdater, updaterSleep, isWriteLocked, isReadLocked, update, web,
           inflight, burstWriteLocks, trackerCall, obs, lastDequeued, batch,
           check, yamlConfig, mult, probes >>

(***************************************************************************)
(* Bounds of the model.                                                    *)
(***************************************************************************)
MaxTime == 1        \* horizon of the clock: the clock saturates here
MaxProbes == 2      \* probes the two checker loops launch, at most
MaxTrackerTime == 3 \* TrackerSpec: the last instant of a SetUp call or an observation
MaxBatch == 3       \* BatchSpec: the results in a batch, at most
MaxDefects == 2     \* ConfigSpec: the fields in which a config file differs from a sound one
MaxTimeout == 1     \* CheckServiceSpec: the longest service timeout, in seconds

(***************************************************************************)
(* Program constants.                                                      *)
(***************************************************************************)
UpdateChannelCap == 10   \* make(chan ServiceUpdate, 10)
SignalCap == 1           \* make(chan bool, 1)
UpdaterSleep == 1        \* time.Sleep(1 * time.Second) in StateUpdater
WebSleep == 1            \* time.Sleep(1 * time.Second) in WebContentUpdater
PingCount == 3           \* pinger.Count = 3

Min(a, b) == IF a < b THEN a ELSE b

Max(a, b) == IF a > b THEN a ELSE b

(***************************************************************************)
(* Domain model: Host and Service, and the UptimeTracking capability.      *)
(***************************************************************************)
NewService(name, protocol, response) ==
    [ Name |-> name, Protocol |-> protocol, Response |-> response,
      isUp |-> FALSE, uptime |-> 0, downtime |-> 0, previousUpdateTime |-> 0 ]

NewHost(name, ip, services) ==
    [ Name |-> name, IP |-> ip, Services |-> services,
      isUp |-> FALSE, uptime |-> 0, downtime |-> 0, previousUpdateTime |-> 0 ]

\* The configuration parseConfigToScoreboard produced: one host, one service.
ConfiguredHosts ==
    << NewHost("web", "10.0.0.1", << NewService("http", "tcp", "") >>) >>

\* The Config parseConfigToScoreboard produced, durations in seconds; StartTime,
\* StopTime and CompetitionEnded are the zero values until startScoring.
ConfiguredConfig ==
    [ PingHosts |-> TRUE,
      TimeBetweenPingChecks |-> 2,
      TimeBetweenServiceChecks |-> 1,
      DefaultServiceState |-> TRUE,
      CompetitionDuration |-> 1,
      StartTime |-> 0, StopTime |-> 0,
      CompetitionEnded |-> FALSE ]

\* Host.SetUp with a flip that forgets host.previousUpdateTime = now
HostSetUpKeepsTimestamp(host, state, t) ==
    IF host.isUp # state
    THEN IF state
         THEN [host EXCEPT !.isUp = state,
                           !.downtime = host.downtime + (t - host.previousUpdateTime)]
         ELSE [host EXCEPT !.isUp = state,
                           !.uptime = host.uptime + (t - host.previousUpdateTime)]
    ELSE host

\* Host.SetUp with the elapsed time added to the bucket of the state entered
HostSetUpEnteredBucket(host, state, t) ==
    IF host.isUp # state
    THEN IF state
         THEN [host EXCEPT !.isUp = state,
                           !.uptime = host.uptime + (t - host.previousUpdateTime),
                           !.previousUpdateTime = t]
         ELSE [host EXCEPT !.isUp = state,
                           !.downtime = host.downtime + (t - host.previousUpdateTime),
                           !.previousUpdateTime = t]
    ELSE host

\* func (host *Host) SetUp(state bool), called at instant t
HostSetUp(host, state, t) ==
    IF host.isUp # state
    THEN IF state
         THEN [host EXCEPT !.isUp = state,
                           !.downtime = host.downtime + (t - host.previousUpdateTime),
                           !.previousUpdateTime = t]
         ELSE [host EXCEPT !.isUp = state,
                           !.uptime = host.uptime + (t - host.previousUpdateTime),
                           !.previousUpdateTime = t]
    ELSE host

\* func (host Host) GetUptime(referenceTime time.Time)
HostGetUptime(host, referenceTime) ==
    IF host.isUp
    THEN host.uptime + (referenceTime - host.previousUpdateTime)
    ELSE host.uptime

\* func (host Host) GetDowntime(referenceTime time.Time)
HostGetDowntime(host, referenceTime) ==
    IF ~host.isUp
    THEN host.downtime + (referenceTime - host.previousUpdateTime)
    ELSE host.downtime

\* Service.SetUp without the test service.isUp != state
ServiceSetUpUnguarded(service, state, t) ==
    IF state
    THEN [service EXCEPT !.isUp = state,
                         !.downtime = service.downtime + (t - service.previousUpdateTime),
                         !.previousUpdateTime = t]
    ELSE [service EXCEPT !.isUp = state,
                         !.uptime = service.uptime + (t - service.previousUpdateTime),
                         !.previousUpdateTime = t]

\* func (service *Service) SetUp(state bool), called at instant t
ServiceSetUp(service, state, t) ==
    IF service.isUp # state
    THEN IF state
         THEN [service EXCEPT !.isUp = state,
                              !.downtime = service.downtime + (t - service.previousUpdateTime),
                              !.previousUpdateTime = t]
         ELSE [service EXCEPT !.isUp = state,
                              !.uptime = service.uptime + (t - service.previousUpdateTime),
                              !.previousUpdateTime = t]
    ELSE service

\* func (service *Service) GetUptime(referenceTime time.Time)
ServiceGetUptime(service, referenceTime) ==
    IF service.isUp
    THEN service.uptime + (referenceTime - service.previousUpdateTime)
    ELSE service.uptime

\* func (service *Service) GetDowntime(referenceTime time.Time)
ServiceGetDowntime(service, referenceTime) ==
    IF ~service.isUp
    THEN service.downtime + (referenceTime - service.previousUpdateTime)
    ELSE service.downtime

(***************************************************************************)
(* Targets: <<h, 0>> is host h itself, <<h, s>> is service s of host h.    *)
(***************************************************************************)
TargetsOf(hs) ==
    { <<h, 0>> : h \in 1..Len(hs) } \cup
    UNION { { <<h, s>> : s \in 1..Len(hs[h].Services) } : h \in 1..Len(hs) }

Targets == TargetsOf(hosts)

Entity(hs, t) == IF t[2] = 0 THEN hs[t[1]] ELSE hs[t[1]].Services[t[2]]

\* The four fields UptimeTracking maintains.
Tracking(e) == << e.isUp, e.uptime, e.downtime, e.previousUpdateTime >>

\* UptimeTracking dispatch: SetUp / GetUptime / GetDowntime on a target.
SetUp(hs, t, state, at) ==
    IF t[2] = 0
    THEN [hs EXCEPT ![t[1]] = HostSetUp(hs[t[1]], state, at)]
    ELSE [hs EXCEPT ![t[1]].Services[t[2]] =
                        ServiceSetUp(hs[t[1]].Services[t[2]], state, at)]

GetUptime(hs, t, referenceTime) ==
    IF t[2] = 0 THEN HostGetUptime(hs[t[1]], referenceTime)
                ELSE ServiceGetUptime(hs[t[1]].Services[t[2]], referenceTime)

GetDowntime(hs, t, referenceTime) ==
    IF t[2] = 0 THEN HostGetDowntime(hs[t[1]], referenceTime)
                ELSE ServiceGetDowntime(hs[t[1]].Services[t[2]], referenceTime)

\* func (sbd *State) GetUptime(tracker UptimeTracking), called at instant at
StateGetUptime(hs, cfg, t, at) ==
    IF cfg.CompetitionEnded THEN GetUptime(hs, t, cfg.StopTime)
                            ELSE GetUptime(hs, t, at)

\* func (sbd *State) GetDowntime(tracker UptimeTracking), called at instant at
StateGetDowntime(hs, cfg, t, at) ==
    IF cfg.CompetitionEnded THEN GetDowntime(hs, t, cfg.StopTime)
                            ELSE GetDowntime(hs, t, at)

\* A variant of the loop body that leaves the host's services as they were.
ScoredHostSkipsServices(host, newTime, state) ==
    [host EXCEPT !.previousUpdateTime = newTime, !.isUp = state]

\* The loop body of startScoring: flip timestamp and flag of every entity.
ScoredService(service, newTime, state) ==
    [service EXCEPT !.previousUpdateTime = newTime, !.isUp = state]

ScoredHost(host, newTime, state) ==
    [host EXCEPT !.previousUpdateTime = newTime, !.isUp = state,
                 !.Services = [s \in 1..Len(host.Services) |->
                                  ScoredService(host.Services[s], newTime, state)]]

(***************************************************************************)
(* sync.RWMutex.  A pending Lock call blocks new RLock calls.              *)
(***************************************************************************)
NoLock == [ writer |-> "none", readers |-> {}, waiting |-> << >> ]

\* RLock() returns: no writer holds the lock and none is waiting for it
RLockable(l) == l.writer = "none" /\ l.waiting = << >>

\* Lock() has been called: the caller queues for the writer mutex rw.w
LockCall(l, who) == [l EXCEPT !.waiting = Append(@, who)]

\* Lock() of the caller at the head of the queue returns: it has rw.w, no
\* writer holds the lock and every reader has left
Lockable(l, who) ==
    /\ l.writer = "none"
    /\ l.readers = {}
    /\ l.waiting # << >>
    /\ Head(l.waiting) = who

RLock(l, who) == [l EXCEPT !.readers = @ \cup {who}]

RUnlock(l, who) == [l EXCEPT !.readers = @ \ {who}]

Lock(l, who) == [l EXCEPT !.writer = who, !.waiting = Tail(@)]

Unlock(l, who) == [l EXCEPT !.writer = "none"]

(***************************************************************************)
(* ServiceUpdate messages and the probe tasks.                             *)
(***************************************************************************)
ServiceUpdate(ip, serviceUpdate, isUp, serviceName) ==
    [ IP |-> ip, ServiceUpdate |-> serviceUpdate, IsUp |-> isUp,
      ServiceName |-> serviceName ]

NoUpdate == ServiceUpdate("", FALSE, FALSE, "")

\* What a ping probe meets: ping.NewPinger fails or not, replies received.
PingEnvs == [ pingerErr : BOOLEAN, PacketsRecv : 0..PingCount ]

\* The texts a probe can read from a connection or capture from its child,
\* and the response patterns of the model: "" and ".*" match every text, the
\* empty one included; "up" is a literal; "(" lacks its closing parenthesis.
Texts == {"", "up", "down"}

Patterns == {"", "up", ".*", "("}

\* regexp.Compile on the patterns of the model
Compiles(pattern) == pattern # "("

\* The texts in which a literal pattern occurs.
Occurs(pattern, text) == pattern = "up" /\ text = "up"

\* matched, _ := regexp.Match(pattern, b): false, with the error dropped, when
\* the pattern does not compile
RegexpMatch(pattern, text) ==
    /\ Compiles(pattern)
    /\ pattern \in {"", ".*"} \/ Occurs(pattern, text)

\* What a service probe meets: the dial succeeds or not and the bytes read from
\* the connection; cmd.Start() succeeds or not and what the child left in the
\* stdout and stderr buffers.  Nothing is read without a connection, nothing
\* is captured without a child.
ServiceEnvs ==
    { env \in [ dialOk : BOOLEAN, read : Texts,
                startOk : BOOLEAN, stdout : Texts, stderr : Texts ] :
          /\ ~env.dialOk => env.read = ""
          /\ ~env.startOk => env.stdout = "" /\ env.stderr = "" }

\* A socket probe starts no child, a host-command probe dials nothing.
SocketEnvs == { env \in ServiceEnvs : ~env.startOk }

HostCommandEnvs == { env \in ServiceEnvs : ~env.dialOk }

EnvsOf(service) ==
    IF service.Protocol = "host-command" THEN HostCommandEnvs ELSE SocketEnvs

\* PingHost that sends its update only from inside the `err == nil` block
PingHostSilentOnError(host, env) ==
    IF env.pingerErr
    THEN << >>
    ELSE << ServiceUpdate(host.IP, FALSE, env.PacketsRecv # 0, "") >>

\* func (host *Host) PingHost: the values it sends on updateChannel
PingHost(host, env) ==
    LET pingSuccess == IF ~env.pingerErr THEN env.PacketsRecv # 0 ELSE FALSE
    IN  << ServiceUpdate(host.IP, FALSE, pingSuccess, "") >>

\* CheckService that takes a connection for a service that is up, whatever
\* the response
CheckServiceUpOnConnect(service, ip, env) ==
    LET serviceUp ==
            IF service.Protocol = "host-command"
            THEN \/ RegexpMatch(service.Response, env.stdout)
                 \/ RegexpMatch(service.Response, env.stderr)
            ELSE env.dialOk
    IN  << ServiceUpdate(ip, TRUE, serviceUp, service.Name) >>

\* CheckService that looks for the response in the child's stdout only
CheckServiceStdoutOnly(service, ip, env) ==
    LET serviceUp ==
            IF service.Protocol = "host-command"
            THEN RegexpMatch(service.Response, env.stdout)
            ELSE IF env.dialOk
                 THEN IF service.Response # ""
                      THEN RegexpMatch(service.Response, env.read)
                      ELSE TRUE
                 ELSE FALSE
    IN  << ServiceUpdate(ip, TRUE, serviceUp, service.Name) >>

\* func (service *Service) CheckService: the values it sends on updateChannel
CheckService(service, ip, env) ==
    LET serviceUp ==
            IF service.Protocol = "host-command"
            THEN LET foundInStdout == RegexpMatch(service.Response, env.stdout)
                     foundInStderr == RegexpMatch(service.Response, env.stderr)
                 IN  foundInStdout \/ foundInStderr
            ELSE IF env.dialOk
                 THEN IF service.Response # ""
                      THEN RegexpMatch(service.Response, env.read)
                      ELSE TRUE
                 ELSE FALSE
    IN  << ServiceUpdate(ip, TRUE, serviceUp, service.Name) >>

HostTargets == { <<h, 0>> : h \in 1..Len(hosts) }

ServiceTargets == Targets \ HostTargets

\* A probe task that, besides sending its result, calls SetUp on the shared
\* State itself.
ProbeReturnWritesState(t) ==
    /\ inflight[t] > 0
    /\ \E sent \in IF t[2] = 0
                   THEN { PingHost(hosts[t[1]], env) : env \in PingEnvs }
                   ELSE { CheckService(hosts[t[1]].Services[t[2]], hosts[t[1]].IP, env) :
                              env \in EnvsOf(hosts[t[1]].Services[t[2]]) } :
          /\ Len(updateChannel) + Len(sent) <= UpdateChannelCap
          /\ updateChannel' = updateChannel \o sent
          /\ hosts' = SetUp(hosts, t, sent[1].IsUp, now)
    /\ inflight' = [inflight EXCEPT ![t] = @ - 1]
    /\ UNCHANGED << now, Config, serviceLock, updateSignal, shutdownSignals,
                    pcMain, timer, pingChecker, serviceChecker, pcUpdater,
                    updaterSleep, isWriteLocked, isReadLocked, update, web,
                    burstWriteLocks, trackerCall, obs, lastDequeued,
                    batch, check, yamlConfig, mult, probes >>

\* A probe task runs to its end: it sends what PingHost / CheckService send.
\* The send blocks while the channel is full.
ProbeReturn(t) ==
    /\ inflight[t] > 0
    /\ \E sent \in IF t[2] = 0
                   THEN { PingHost(hosts[t[1]], env) : env \in PingEnvs }
                   ELSE { CheckService(hosts[t[1]].Services[t[2]], hosts[t[1]].IP, env) :
                              env \in EnvsOf(hosts[t[1]].Services[t[2]]) } :
          /\ Len(updateChannel) + Len(sent) <= UpdateChannelCap
          /\ updateChannel' = updateChannel \o sent
    /\ inflight' = [inflight EXCEPT ![t] = @ - 1]
    /\ UNCHANGED << now, hosts, Config, serviceLock, updateSignal, shutdownSignals,
                    pcMain, timer, pingChecker, serviceChecker, pcUpdater,
                    updaterSleep, isWriteLocked, isReadLocked, update, web,
                    burstWriteLocks, trackerCall, obs, lastDequeued,
                    batch, check, yamlConfig, mult, probes >>

(***************************************************************************)
(* The configuration: what yaml decodes from the config file, validateConfig*)
(* and parseConfigToScoreboard.  A key the file lacks reads as "".          *)
(***************************************************************************)
\* The fields of a config file with one host of one tcp service...
SocketFields ==
    [ pingHosts |-> "yes", pingInterval |-> "2s", pingTimeout |-> "1s",
      serviceInterval |-> "1s", serviceTimeout |-> "1s", defaultState |-> "up",
      competitionName |-> "cup", customScoreboard |-> "",
      competitionDuration |-> "1s", listenAddress |-> ":80",
      hosts |-> "one", host |-> "web", ip |-> "10.0.0.1", services |-> "one",
      service |-> "http", protocol |-> "tcp", port |-> "80", command |-> "",
      response |-> "" ]

\* ... and of one host of one host-command service.
HostCommandFields ==
    [ SocketFields EXCEPT !.service = "probe", !.protocol = "host-command",
                          !.port = "", !.command = "echo up", !.response = "up" ]

\* Other values a field can have in a config file.
FieldValues ==
    { <<"pingHosts", "">>, <<"pingHosts", "no">>,
      <<"pingInterval", "">>, <<"pingInterval", "10">>,
      <<"pingTimeout", "">>, <<"pingTimeout", "10">>,
      <<"serviceInterval", "">>, <<"serviceInterval", "10">>,
      <<"serviceTimeout", "">>, <<"serviceTimeout", "10">>,
      <<"defaultState", "">>, <<"defaultState", "down">>,
      <<"competitionName", "">>,
      <<"customScoreboard", "default">>, <<"customScoreboard", "board.html">>,
      <<"competitionDuration", "">>, <<"competitionDuration", "10">>,
      <<"listenAddress", "">>,
      <<"hosts", "none">>, <<"host", "">>, <<"ip", "">>, <<"services", "none">>,
      <<"service", "">>, <<"protocol", "">>, <<"protocol", "udp">>,
      <<"port", "">>, <<"port", "80">>,
      <<"command", "">>, <<"command", "echo up">>,
      <<"response", "">>, <<"response", "up">>, <<"response", "(">> }

\* The config files that differ from f in at most n fields.
RECURSIVE Variants(_, _)
Variants(f, n) ==
    IF n = 0 THEN {f}
    ELSE {f} \cup UNION { Variants([f EXCEPT ![fv[1]] = fv[2]], n - 1) :
                            fv \in FieldValues }

\* yamlDecoder.Decode(&config): the YamlConfig of a config file
YamlConfigOf(f) ==
    [ Config |-> [ pingHosts |-> f.pingHosts, pingInterval |-> f.pingInterval,
                   pingTimeout |-> f.pingTimeout,
                   serviceInterval |-> f.serviceInterval,
                   serviceTimeout |-> f.serviceTimeout,
                   defaultState |-> f.defaultState,
                   competitionName |-> f.competitionName,
                   customScoreboard |-> f.customScoreboard,
                   competitionDuration |-> f.competitionDuration,
                   listenAddress |-> f.listenAddress ],
      Hosts |-> IF f.hosts = "none" THEN << >>
                ELSE << [ Name |-> f.host, IP |-> f.ip,
                          Services |->
                              IF f.services = "none" THEN << >>
                              ELSE << [ Name |-> f.service, Port |-> f.port,
                                        Command |-> f.command,
                                        Response |-> f.response,
                                        Protocol |-> f.protocol ] >> ] >> ]

\* config is a local of main's if statement: it is gone when Start() runs.
NoYamlConfig == [ Config |-> << >>, Hosts |-> << >> ]

\* validateConfig asking every service for a port, host-command ones included
validateConfigPortAlways(config) ==
    \/ config.Config.pingHosts = ""
    \/ /\ config.Config.pingHosts = "yes"
       /\ (config.Config.pingInterval = "" \/ config.Config.pingTimeout = "")
    \/ config.Config.serviceInterval = ""
    \/ config.Config.serviceTimeout = ""
    \/ Len(config.Hosts) < 1
    \/ \E h \in 1..Len(config.Hosts) :
          LET host == config.Hosts[h]
          IN  \/ host.Name = ""
              \/ host.IP = ""
              \/ Len(host.Services) = 0
              \/ \E i \in 1..Len(host.Services) :
                    LET service == host.Services[i]
                    IN  \/ service.Name = ""
                        \/ service.Protocol = ""
                        \/ service.Port = ""
                        \/ /\ service.Protocol = "host-command"
                           /\ (service.Command = "" \/ service.Response = "")

\* func (config *YamlConfig) validateConfig() error: TRUE when it returns an error
validateConfig(config) ==
    \/ config.Config.pingHosts = ""
    \/ /\ config.Config.pingHosts = "yes"
       /\ (config.Config.pingInterval = "" \/ config.Config.pingTimeout = "")
    \/ config.Config.serviceInterval = ""
    \/ config.Config.serviceTimeout = ""
    \/ Len(config.Hosts) < 1
    \/ \E h \in 1..Len(config.Hosts) :
          LET host == config.Hosts[h]
          IN  \/ host.Name = ""
              \/ host.IP = ""
              \/ Len(host.Services) = 0
              \/ \E i \in 1..Len(host.Services) :
                    LET service == host.Services[i]
                    IN  \/ service.Name = ""
                        \/ service.Protocol = ""
                        \/ service.Protocol # "host-command" /\ service.Port = ""
                        \/ /\ service.Protocol = "host-command"
                           /\ (service.Command = "" \/ service.Response = "")

\* time.ParseDuration on the duration strings of the model, in seconds:
\* "1s" and "2s" parse, a number without a unit and "" do not.
ParseDuration(s) ==
    IF s = "1s" THEN [ err |-> FALSE, d |-> 1 ]
    ELSE IF s = "2s" THEN [ err |-> FALSE, d |-> 2 ]
    ELSE [ err |-> TRUE, d |-> 0 ]

\* The zero Config of NewScoreboard().
ZeroConfig ==
    [ PingHosts |-> FALSE, TimeBetweenPingChecks |-> 0,
      TimeBetweenServiceChecks |-> 0, DefaultServiceState |-> FALSE,
      CompetitionDuration |-> 0, StartTime |-> 0, StopTime |-> 0,
      CompetitionEnded |-> FALSE ]

\* scoreboard.Hosts = config.Hosts: the decoded hosts, unexported fields zero
ScoreboardHosts(config) ==
    [ h \in 1..Len(config.Hosts) |->
        NewHost(config.Hosts[h].Name, config.Hosts[h].IP,
                [ i \in 1..Len(config.Hosts[h].Services) |->
                    NewService(config.Hosts[h].Services[i].Name,
                               config.Hosts[h].Services[i].Protocol,
                               config.Hosts[h].Services[i].Response) ]) ]

\* func parseConfigToScoreboard(config *YamlConfig, scoreboard *State) error:
\* whether it returns an error, and the Config and Hosts it leaves when it does
\* not (readOk: ioutil.ReadFile of a custom scoreboard file succeeds).
parseConfigToScoreboard(config, readOk) ==
    LET c == config.Config
        pingHosts == c.pingHosts = "yes"
        err ==
            \/ pingHosts /\ ParseDuration(c.pingInterval).err
            \/ pingHosts /\ ParseDuration(c.pingTimeout).err
            \/ ParseDuration(c.serviceInterval).err
            \/ ParseDuration(c.serviceTimeout).err
            \/ c.defaultState = ""
            \/ c.competitionName = ""
            \/ c.customScoreboard # "" /\ c.customScoreboard # "default" /\ ~readOk
            \/ ParseDuration(c.competitionDuration).err
            \/ c.listenAddress = ""
    IN  [ err |-> err,
          Config |-> [ ZeroConfig EXCEPT
                         !.PingHosts = pingHosts,
                         !.TimeBetweenPingChecks =
                             IF pingHosts THEN ParseDuration(c.pingInterval).d ELSE 0,
                         !.TimeBetweenServiceChecks = ParseDuration(c.serviceInterval).d,
                         !.DefaultServiceState = (c.defaultState = "up"),
                         !.CompetitionDuration = ParseDuration(c.competitionDuration).d ],
          Hosts |-> ScoreboardHosts(config) ]

(***************************************************************************)
(* Start(): the end timer, startScoring, and the launch of the four loops. *)
(***************************************************************************)
\* time.AfterFunc(sbd.Config.CompetitionDuration, ...)
MainAfterFunc ==
    /\ pcMain = "AfterFunc"
    /\ timer' = [ pc |-> "armed", after |-> Config.CompetitionDuration ]
    /\ pcMain' = "startScoring"
    /\ UNCHANGED << now, hosts, Config, serviceLock, updateChannel, updateSignal,
                    shutdownSignals, pingChecker, serviceChecker, pcUpdater,
                    updaterSleep, isWriteLocked, isReadLocked, update, web,
                    inflight, burstWriteLocks, trackerCall, obs, lastDequeued,
                    batch, check, yamlConfig, mult, probes >>

\* func (sbd *State) startScoring()
startScoring ==
    /\ pcMain = "startScoring"
    /\ hosts' = [h \in 1..Len(hosts) |->
                    ScoredHost(hosts[h], now, Config.DefaultServiceState)]
    /\ Config' = [Config EXCEPT !.StartTime = now,
                                !.StopTime = now + Config.CompetitionDuration,
                                !.CompetitionEnded = FALSE]
    /\ pcMain' = "launch"
    /\ UNCHANGED << now, serviceLock, updateChannel, updateSignal,
                    shutdownSignals, timer, pingChecker, serviceChecker, pcUpdater,
                    updaterSleep, isWriteLocked, isReadLocked, update, web,
                    inflight, burstWriteLocks, trackerCall, obs, lastDequeued,
                    batch, check, yamlConfig, mult, probes >>

\* A checker loop at a position, not sleeping, before its first round.
Loop(pc) == [ pc |-> pc, sleep |-> 0, rounds |-> 0 ]

\* go sbd.PingChecker(...); go sbd.ServiceChecker(...); go sbd.StateUpdater(...);
\* go sbd.WebContentUpdater(...).  PingChecker returns at once unless PingHosts.
MainLaunch ==
    /\ pcMain = "launch"
    /\ pcMain' = "serving"
    /\ pingChecker' = Loop(IF Config.PingHosts THEN "select" ELSE "returned")
    /\ serviceChecker' = Loop("select")
    /\ pcUpdater' = "select"
    /\ updaterSleep' = 0
    /\ web' = [web EXCEPT !.pc = "rlock", !.mode = "init"]
    /\ UNCHANGED << now, hosts, Config, serviceLock, updateChannel, updateSignal,
                    shutdownSignals, timer, isWriteLocked, isReadLocked, update,
                    inflight, burstWriteLocks, trackerCall, obs, lastDequeued,
                    batch, check, yamlConfig, mult, probes >>

\* The timer function runs: the four sends, each on a channel of capacity 1
\* (a send blocks while its channel is full).
TimerFire ==
    /\ timer.pc = "armed"
    /\ timer.after = 0
    /\ \A ch \in DOMAIN shutdownSignals : shutdownSignals[ch] < SignalCap
    /\ shutdownSignals' = [ch \in DOMAIN shutdownSignals |-> shutdownSignals[ch] + 1]
    /\ timer' = [timer EXCEPT !.pc = "fired"]
    /\ UNCHANGED << now, hosts, Config, serviceLock, updateChannel, updateSignal,
                    pcMain, pingChecker, serviceChecker, pcUpdater, updaterSleep,
                    isWriteLocked, isReadLocked, update, web, inflight,
                    burstWriteLocks, trackerCall, obs, lastDequeued,
                    batch, check, yamlConfig, mult, probes >>

\* sbd.serviceLock.Lock(); sbd.Config.CompetitionEnded = true;
\* sbd.serviceLock.Unlock() -- in one step when the lock is free
TimerLockCall ==
    /\ timer.pc = "fired"
    /\ IF Lockable(LockCall(serviceLock, "timer"), "timer")
       THEN /\ Config' = [Config EXCEPT !.CompetitionEnded = TRUE]
            /\ timer' = [timer EXCEPT !.pc = "done"]
            /\ UNCHANGED serviceLock
       ELSE /\ serviceLock' = LockCall(serviceLock, "timer")
            /\ timer' = [timer EXCEPT !.pc = "lock"]
            /\ UNCHANGED Config
    /\ UNCHANGED << now, hosts, updateChannel, updateSignal,
                    shutdownSignals, pcMain, pingChecker, serviceChecker,
                    pcUpdater, updaterSleep, isWriteLocked, isReadLocked, update,
                    web, inflight, burstWriteLocks, trackerCall, obs, lastDequeued,
                    batch, check, yamlConfig, mult, probes >>

\* An end timer that, with the write lock, also marks every Host and Service down.
TimerLockMarksDown ==
    /\ timer.pc = "lock"
    /\ Lockable(serviceLock, "timer")
    /\ serviceLock' = Unlock(Lock(serviceLock, "timer"), "timer")
    /\ Config' = [Config EXCEPT !.CompetitionEnded = TRUE]
    /\ hosts' = [h \in 1..Len(hosts) |->
                    [hosts[h] EXCEPT
                        !.isUp = FALSE,
                        !.Services = [s \in 1..Len(hosts[h].Services) |->
                                         [hosts[h].Services[s] EXCEPT !.isUp = FALSE]]]]
    /\ timer' = [timer EXCEPT !.pc = "done"]
    /\ UNCHANGED << now, updateChannel, updateSignal,
                    shutdownSignals, pcMain, pingChecker, serviceChecker,
                    pcUpdater, updaterSleep, isWriteLocked, isReadLocked, update,
                    web, inflight, burstWriteLocks, trackerCall, obs, lastDequeued,
                    batch, check, yamlConfig, mult, probes >>

\* The pending sbd.serviceLock.Lock() returns; sbd.Config.CompetitionEnded = true;
\* sbd.serviceLock.Unlock()
TimerLock ==
    /\ timer.pc = "lock"
    /\ Lockable(serviceLock, "timer")
    /\ serviceLock' = Unlock(Lock(serviceLock, "timer"), "timer")
    /\ Config' = [Config EXCEPT !.CompetitionEnded = TRUE]
    /\ timer' = [timer EXCEPT !.pc = "done"]
    /\ UNCHANGED << now, hosts, updateChannel, updateSignal,
                    shutdownSignals, pcMain, pingChecker, serviceChecker,
                    pcUpdater, updaterSleep, isWriteLocked, isReadLocked, update,
                    web, inflight, burstWriteLocks, trackerCall, obs, lastDequeued,
                    batch, check, yamlConfig, mult, probes >>

(***************************************************************************)
(* The probe loops.                                                        *)
(***************************************************************************)
\* Probes launched so far: every round of a loop launches one per target.
Launched ==
    pingChecker.rounds * Cardinality(HostTargets)
    + serviceChecker.rounds * Cardinality(ServiceTargets)

Launch(fl, ts) == [t \in DOMAIN fl |-> IF t \in ts THEN fl[t] + 1 ELSE fl[t]]

\* Probes a loop is about to launch: it is past its select and has not fanned out.
Reserved(loop, ts) == IF loop.pc \in {"rlock", "fanout"} THEN Cardinality(ts) ELSE 0

\* PingChecker, case <-shutdownPingSignal: return
PingCheckerShutdown ==
    /\ pingChecker.pc = "select"
    /\ pingChecker.sleep = 0
    /\ shutdownSignals["ping"] > 0
    /\ shutdownSignals' = [shutdownSignals EXCEPT !["ping"] = @ - 1]
    /\ pingChecker' = [pingChecker EXCEPT !.pc = "returned"]
    /\ UNCHANGED << now, hosts, Config, serviceLock, updateChannel, updateSignal,
                    pcMain, timer, serviceChecker, pcUpdater, updaterSleep,
                    isWriteLocked, isReadLocked, update, web, inflight,
                    burstWriteLocks, trackerCall, obs, lastDequeued,
                    batch, check, yamlConfig, mult, probes >>

\* A select that can take its default branch while the shutdown signal waits.
PingCheckerDefaultIgnoresShutdown ==
    /\ pingChecker.pc = "select"
    /\ pingChecker.sleep = 0
    /\ Launched + Reserved(serviceChecker, ServiceTargets) + Cardinality(HostTargets)
          <= MaxProbes
    /\ IF RLockable(serviceLock)
       THEN /\ serviceLock' = RLock(serviceLock, "PingChecker")
            /\ pingChecker' = [pingChecker EXCEPT !.pc = "fanout"]
       ELSE /\ pingChecker' = [pingChecker EXCEPT !.pc = "rlock"]
            /\ UNCHANGED serviceLock
    /\ UNCHANGED << now, hosts, Config, updateChannel, updateSignal,
                    shutdownSignals, pcMain, timer, serviceChecker, pcUpdater,
                    updaterSleep, isWriteLocked, isReadLocked, update, web,
                    inflight, burstWriteLocks, trackerCall, obs, lastDequeued,
                    batch, check, yamlConfig, mult, probes >>

\* PingChecker, default: sbd.serviceLock.RLock() is called
PingCheckerDefault ==
    /\ pingChecker.pc = "select"
    /\ pingChecker.sleep = 0
    /\ shutdownSignals["ping"] = 0
    /\ Launched + Reserved(serviceChecker, ServiceTargets) + Cardinality(HostTargets)
          <= MaxProbes
    /\ IF RLockable(serviceLock)
       THEN /\ serviceLock' = RLock(serviceLock, "PingChecker")
            /\ pingChecker' = [pingChecker EXCEPT !.pc = "fanout"]
       ELSE /\ pingChecker' = [pingChecker EXCEPT !.pc = "rlock"]
            /\ UNCHANGED serviceLock
    /\ UNCHANGED << now, hosts, Config, updateChannel, updateSignal,
                    shutdownSignals, pcMain, timer, serviceChecker, pcUpdater,
                    updaterSleep, isWriteLocked, isReadLocked, update, web,
                    inflight, burstWriteLocks, trackerCall, obs, lastDequeued,
                    batch, check, yamlConfig, mult, probes >>

\* PingChecker: the pending sbd.serviceLock.RLock() returns
PingCheckerRLock ==
    /\ pingChecker.pc = "rlock"
    /\ RLockable(serviceLock)
    /\ serviceLock' = RLock(serviceLock, "PingChecker")
    /\ pingChecker' = [pingChecker EXCEPT !.pc = "fanout"]
    /\ UNCHANGED << now, hosts, Config, updateChannel, updateSignal,
                    shutdownSignals, pcMain, timer, serviceChecker, pcUpdater,
                    updaterSleep, isWriteLocked, isReadLocked, update, web,
                    inflight, burstWriteLocks, trackerCall, obs, lastDequeued,
                    batch, check, yamlConfig, mult, probes >>

\* PingChecker: go host.PingHost(...) for every host; RUnlock();
\* time.Sleep(sbd.Config.TimeBetweenPingChecks)
PingCheckerFanOut ==
    /\ pingChecker.pc = "fanout"
    /\ inflight' = Launch(inflight, HostTargets)
    /\ serviceLock' = RUnlock(serviceLock, "PingChecker")
    /\ pingChecker' = [ pc |-> "select", sleep |-> Config.TimeBetweenPingChecks,
                       rounds |-> pingChecker.rounds + 1 ]
    /\ UNCHANGED << now, hosts, Config, updateChannel, updateSignal,
                    shutdownSignals, pcMain, timer, serviceChecker, pcUpdater,
                    updaterSleep, isWriteLocked, isReadLocked, update, web,
                    burstWriteLocks, trackerCall, obs, lastDequeued,
                    batch, check, yamlConfig, mult, probes >>

\* ServiceChecker, case <-shutdownServiceSignal: return
ServiceCheckerShutdown ==
    /\ serviceChecker.pc = "select"
    /\ serviceChecker.sleep = 0
    /\ shutdownSignals["service"] > 0
    /\ shutdownSignals' = [shutdownSignals EXCEPT !["service"] = @ - 1]
    /\ serviceChecker' = [serviceChecker EXCEPT !.pc = "returned"]
    /\ UNCHANGED << now, hosts, Config, serviceLock, updateChannel, updateSignal,
                    pcMain, timer, pingChecker, pcUpdater, updaterSleep,
                    isWriteLocked, isReadLocked, update, web, inflight,
                    burstWriteLocks, trackerCall, obs, lastDequeued,
                    batch, check, yamlConfig, mult, probes >>

\* ServiceChecker, default: sbd.serviceLock.RLock() is called
ServiceCheckerDefault ==
    /\ serviceChecker.pc = "select"
    /\ serviceChecker.sleep = 0
    /\ shutdownSignals["service"] = 0
    /\ Launched + Reserved(pingChecker, HostTargets) + Cardinality(ServiceTargets)
          <= MaxProbes
    /\ IF RLockable(serviceLock)
       THEN /\ serviceLock' = RLock(serviceLock, "ServiceChecker")
            /\ serviceChecker' = [serviceChecker EXCEPT !.pc = "fanout"]
       ELSE /\ serviceChecker' = [serviceChecker EXCEPT !.pc = "rlock"]
            /\ UNCHANGED serviceLock
    /\ UNCHANGED << now, hosts, Config, updateChannel, updateSignal,
                    shutdownSignals, pcMain, timer, pingChecker, pcUpdater,
                    updaterSleep, isWriteLocked, isReadLocked, update, web,
                    inflight, burstWriteLocks, trackerCall, obs, lastDequeued,
                    batch, check, yamlConfig, mult, probes >>

\* ServiceChecker: the pending sbd.serviceLock.RLock() returns
ServiceCheckerRLock ==
    /\ serviceChecker.pc = "rlock"
    /\ RLockable(serviceLock)
    /\ serviceLock' = RLock(serviceLock, "ServiceChecker")
    /\ serviceChecker' = [serviceChecker EXCEPT !.pc = "fanout"]
    /\ UNCHANGED << now, hosts, Config, updateChannel, updateSignal,
                    shutdownSignals, pcMain, timer, pingChecker, pcUpdater,
                    updaterSleep, isWriteLocked, isReadLocked, update, web,
                    inflight, burstWriteLocks, trackerCall, obs, lastDequeued,
                    batch, check, yamlConfig, mult, probes >>

\* ServiceChecker: go service.CheckService(...) for every service; RUnlock();
\* time.Sleep(sbd.Config.TimeBetweenServiceChecks)
ServiceCheckerFanOut ==
    /\ serviceChecker.pc = "fanout"
    /\ inflight' = Launch(inflight, ServiceTargets)
    /\ serviceLock' = RUnlock(serviceLock, "ServiceChecker")
    /\ serviceChecker' = [ pc |-> "select", sleep |-> Config.TimeBetweenServiceChecks,
                          rounds |-> serviceChecker.rounds + 1 ]
    /\ UNCHANGED << now, hosts, Config, updateChannel, updateSignal,
                    shutdownSignals, pcMain, timer, pingChecker, pcUpdater,
                    updaterSleep, isWriteLocked, isReadLocked, update, web,
                    burstWriteLocks, trackerCall, obs, lastDequeued,
                    batch, check, yamlConfig, mult, probes >>

(***************************************************************************)
(* StateUpdater: the reconciliation loop.                                  *)
(***************************************************************************)
NoTarget == <<0, 0>>

\* A scan that goes on to the last host with the address.
FindHostLast(hs, ip) ==
    IF \E h \in 1..Len(hs) : hs[h].IP = ip
    THEN CHOOSE h \in 1..Len(hs) :
            /\ hs[h].IP = ip
            /\ \A g \in (h + 1)..Len(hs) : hs[g].IP # ip
    ELSE 0

\* for indexOfHosts := range sbd.Hosts { if update.IP == host.IP { ... break } }
FindHost(hs, ip) ==
    IF \E h \in 1..Len(hs) : hs[h].IP = ip
    THEN CHOOSE h \in 1..Len(hs) :
            /\ hs[h].IP = ip
            /\ \A g \in 1..(h - 1) : hs[g].IP # ip
    ELSE 0

\* for indexOfServices := range host.Services { if service.Name == update.ServiceName { ... break } }
FindService(host, name) ==
    IF \E i \in 1..Len(host.Services) : host.Services[i].Name = name
    THEN CHOOSE i \in 1..Len(host.Services) :
            /\ host.Services[i].Name = name
            /\ \A j \in 1..(i - 1) : host.Services[j].Name # name
    ELSE 0

\* A scan that stops at the host whatever the kind of the update.
TargetOfHostOnly(hs, u) ==
    LET h == FindHost(hs, u.IP)
    IN  IF h = 0 THEN NoTarget ELSE <<h, 0>>

\* The entity a ServiceUpdate addresses, NoTarget when the scan finds none.
TargetOf(hs, u) ==
    LET h == FindHost(hs, u.IP)
    IN  IF h = 0 THEN NoTarget
        ELSE IF u.ServiceUpdate
             THEN LET i == FindService(hs[h], u.ServiceName)
                  IN  IF i = 0 THEN NoTarget ELSE <<h, i>>
             ELSE <<h, 0>>

\* A comparison that only ever finds an entity to be newly down.
ContradictsOnlyDown(hs, u) ==
    /\ TargetOf(hs, u) # NoTarget
    /\ Entity(hs, TargetOf(hs, u)).isUp
    /\ ~u.IsUp

\* A comparison that takes every result for a change of state.
ContradictsAlways(hs, u) == TargetOf(hs, u) # NoTarget

\* if service.isUp != update.IsUp  /  if host.isUp != update.IsUp
Contradicts(hs, u) ==
    /\ TargetOf(hs, u) # NoTarget
    /\ Entity(hs, TargetOf(hs, u)).isUp # u.IsUp

\* The reconciliation without the upgrade: a contradiction is resolved by SetUp
\* under whatever lock is held.
ReconcileUnderReadLock(u, l, readLocked) ==
    /\ hosts' = IF Contradicts(hosts, u)
                THEN SetUp(hosts, TargetOf(hosts, u), u.IsUp, now)
                ELSE hosts
    /\ serviceLock' = l
    /\ isReadLocked' = readLocked
    /\ update' = NoUpdate
    /\ pcUpdater' = "select"
    /\ UNCHANGED << isWriteLocked, burstWriteLocks >>

\* The reconciliation with one write-lock acquisition per message: Unlock()
\* right after SetUp.
ReconcileLockPerMessage(u, l, readLocked) ==
    IF ~Contradicts(hosts, u)
    THEN /\ serviceLock' = l
         /\ isReadLocked' = readLocked
         /\ update' = NoUpdate
         /\ pcUpdater' = "select"
         /\ UNCHANGED << hosts, isWriteLocked, burstWriteLocks >>
    ELSE LET called == LockCall(RUnlock(l, "StateUpdater"), "StateUpdater")
         IN  /\ isReadLocked' = FALSE
             /\ IF Lockable(called, "StateUpdater")
                THEN /\ serviceLock' = Unlock(Lock(called, "StateUpdater"), "StateUpdater")
                     /\ burstWriteLocks' = burstWriteLocks + 1
                     /\ hosts' = SetUp(hosts, TargetOf(hosts, u), u.IsUp, now)
                     /\ update' = NoUpdate
                     /\ pcUpdater' = "select"
                     /\ UNCHANGED isWriteLocked
                ELSE /\ serviceLock' = called
                     /\ update' = u
                     /\ pcUpdater' = "wlock"
                     /\ UNCHANGED << hosts, isWriteLocked, burstWriteLocks >>

\* The reconciliation with an upgrade that leaves isReadLocked as it was.
ReconcileKeepsReadFlag(u, l, readLocked) ==
    IF ~Contradicts(hosts, u)
    THEN /\ serviceLock' = l
         /\ isReadLocked' = readLocked
         /\ update' = NoUpdate
         /\ pcUpdater' = "select"
         /\ UNCHANGED << hosts, isWriteLocked, burstWriteLocks >>
    ELSE IF isWriteLocked
    THEN /\ hosts' = SetUp(hosts, TargetOf(hosts, u), u.IsUp, now)
         /\ serviceLock' = l
         /\ isReadLocked' = readLocked
         /\ update' = NoUpdate
         /\ pcUpdater' = "select"
         /\ UNCHANGED << isWriteLocked, burstWriteLocks >>
    ELSE LET called == LockCall(RUnlock(l, "StateUpdater"), "StateUpdater")
         IN  /\ isReadLocked' = readLocked
             /\ IF Lockable(called, "StateUpdater")
                THEN /\ serviceLock' = Lock(called, "StateUpdater")
                     /\ isWriteLocked' = TRUE
                     /\ burstWriteLocks' = burstWriteLocks + 1
                     /\ hosts' = SetUp(hosts, TargetOf(hosts, u), u.IsUp, now)
                     /\ update' = NoUpdate
                     /\ pcUpdater' = "select"
                ELSE /\ serviceLock' = called
                     /\ update' = u
                     /\ pcUpdater' = "wlock"
                     /\ UNCHANGED << hosts, isWriteLocked, burstWriteLocks >>

\* The scan for the entity that u addresses and the comparison of its flag with
\* u, made with the lock l held (readLocked: as a read lock just taken or kept).
\* No contradiction: nothing changes.  Contradiction with the write lock held:
\* SetUp.  Contradiction without it: RUnlock(), isReadLocked = false, Lock() is
\* called, and when it returns at once isWriteLocked = true and SetUp.
\* Every iteration declares a fresh `update`.
Reconcile(u, l, readLocked) ==
    IF ~Contradicts(hosts, u)
    THEN /\ serviceLock' = l
         /\ isReadLocked' = readLocked
         /\ update' = NoUpdate
         /\ pcUpdater' = "select"
         /\ UNCHANGED << hosts, isWriteLocked, burstWriteLocks >>
    ELSE IF isWriteLocked
    THEN /\ hosts' = SetUp(hosts, TargetOf(hosts, u), u.IsUp, now)
         /\ serviceLock' = l
         /\ isReadLocked' = readLocked
         /\ update' = NoUpdate
         /\ pcUpdater' = "select"
         /\ UNCHANGED << isWriteLocked, burstWriteLocks >>
    ELSE LET called == LockCall(RUnlock(l, "StateUpdater"), "StateUpdater")
         IN  /\ isReadLocked' = FALSE
             /\ IF Lockable(called, "StateUpdater")
                THEN /\ serviceLock' = Lock(called, "StateUpdater")
                     /\ isWriteLocked' = TRUE
                     /\ burstWriteLocks' = burstWriteLocks + 1
                     /\ hosts' = SetUp(hosts, TargetOf(hosts, u), u.IsUp, now)
                     /\ update' = NoUpdate
                     /\ pcUpdater' = "select"
                ELSE /\ serviceLock' = called
                     /\ update' = u
                     /\ pcUpdater' = "wlock"
                     /\ UNCHANGED << hosts, isWriteLocked, burstWriteLocks >>

\* What update = <-updateChannel leaves in the record of dequeued results.
NoneDequeued == [ any |-> FALSE, IsUp |-> FALSE ]

Dequeued(last, t, u) ==
    IF t = NoTarget THEN last
    ELSE [last EXCEPT ![t] = [ any |-> TRUE, IsUp |-> u.IsUp ]]

\* The idle values of the variables of the other specifications.
NoBatch == {}

NoCheck == [ pc |-> "off" ]

\* No Multiplier has been made.
NoMult == [ pc |-> "off" ]

\* No CheckService task is followed by its launch round.
NoProbes == [ outstanding |-> {}, observed |-> {}, sent |-> << >> ]

\* case <-shutdownUpdaterSignal: return
StateUpdaterShutdown ==
    /\ pcUpdater = "select"
    /\ updaterSleep = 0
    /\ shutdownSignals["updater"] > 0
    /\ shutdownSignals' = [shutdownSignals EXCEPT !["updater"] = @ - 1]
    /\ pcUpdater' = "returned"
    /\ UNCHANGED << now, hosts, Config, serviceLock, updateChannel, updateSignal,
                    pcMain, timer, pingChecker, serviceChecker, updaterSleep,
                    isWriteLocked, isReadLocked, update, web, inflight,
                    burstWriteLocks, trackerCall, obs, lastDequeued,
                    batch, check, yamlConfig, mult, probes >>

\* case update = <-updateChannel.  With a lock held the scan and the comparison
\* follow; otherwise RLock() is called, and when it returns at once
\* isReadLocked = true and the scan and the comparison follow.
StateUpdaterReceive ==
    /\ pcUpdater = "select"
    /\ updaterSleep = 0
    /\ Len(updateChannel) > 0
    /\ updateChannel' = Tail(updateChannel)
    /\ IF isWriteLocked \/ isReadLocked
       THEN Reconcile(Head(updateChannel), serviceLock, isReadLocked)
       ELSE IF RLockable(serviceLock)
       THEN Reconcile(Head(updateChannel), RLock(serviceLock, "StateUpdater"), TRUE)
       ELSE /\ update' = Head(updateChannel)
            /\ pcUpdater' = "rlock"
            /\ UNCHANGED << hosts, serviceLock, isReadLocked, isWriteLocked,
                            burstWriteLocks >>
    /\ lastDequeued' = Dequeued(lastDequeued, TargetOf(hosts, Head(updateChannel)),
                                 Head(updateChannel))
    /\ UNCHANGED << now, Config, updateSignal, shutdownSignals, pcMain,
                    timer, pingChecker, serviceChecker, updaterSleep,
                    web, inflight, trackerCall, obs, batch, check, yamlConfig, mult, probes >>

\* The pending sbd.serviceLock.RLock() returns; isReadLocked = true; the scan
\* and the comparison follow
StateUpdaterRLock ==
    /\ pcUpdater = "rlock"
    /\ RLockable(serviceLock)
    /\ Reconcile(update, RLock(serviceLock, "StateUpdater"), TRUE)
    /\ UNCHANGED << now, Config, updateChannel, updateSignal,
                    shutdownSignals, pcMain, timer, pingChecker, serviceChecker,
                    updaterSleep, web, inflight, trackerCall, obs, lastDequeued,
                    batch, check, yamlConfig, mult, probes >>

\* The pending sbd.serviceLock.Lock() returns; isWriteLocked = true;
\* service.SetUp(update.IsUp)  /  host.SetUp(update.IsUp)
StateUpdaterLock ==
    /\ pcUpdater = "wlock"
    /\ Lockable(serviceLock, "StateUpdater")
    /\ serviceLock' = Lock(serviceLock, "StateUpdater")
    /\ isWriteLocked' = TRUE
    /\ burstWriteLocks' = burstWriteLocks + 1
    /\ hosts' = SetUp(hosts, TargetOf(hosts, update), update.IsUp, now)
    /\ update' = NoUpdate
    /\ pcUpdater' = "select"
    /\ UNCHANGED << now, Config, updateChannel, updateSignal,
                    shutdownSignals, pcMain, timer, pingChecker, serviceChecker,
                    updaterSleep, isReadLocked, web, inflight,
                    trackerCall, obs, lastDequeued,
                    batch, check, yamlConfig, mult, probes >>

\* The default branch with `if isWriteLocked || isReadLocked { updateSignal <- true`
StateUpdaterDefaultSignalsUnderReadLock ==
    /\ pcUpdater = "select"
    /\ updaterSleep = 0
    /\ shutdownSignals["updater"] = 0
    /\ Len(updateChannel) = 0
    /\ IF isWriteLocked \/ isReadLocked
       THEN /\ pcUpdater' = "signal"
            /\ serviceLock' = RUnlock(serviceLock, "StateUpdater")
            /\ isReadLocked' = FALSE
            /\ UNCHANGED << updaterSleep, burstWriteLocks >>
       ELSE /\ updaterSleep' = UpdaterSleep
            /\ burstWriteLocks' = 0
            /\ pcUpdater' = "select"
            /\ UNCHANGED << serviceLock, isReadLocked >>
    /\ UNCHANGED << now, hosts, Config, updateChannel, updateSignal,
                    shutdownSignals, pcMain, timer, pingChecker, serviceChecker,
                    isWriteLocked, update, web, inflight, trackerCall, obs, lastDequeued,
                    batch, check, yamlConfig, mult, probes >>

\* default: with the write lock held the loop goes on to `updateSignal <- true`;
\* otherwise it releases the read lock if it holds one and sleeps.
StateUpdaterDefault ==
    /\ pcUpdater = "select"
    /\ updaterSleep = 0
    /\ shutdownSignals["updater"] = 0
    /\ Len(updateChannel) = 0
    /\ IF isWriteLocked
       THEN /\ pcUpdater' = "signal"
            /\ UNCHANGED << serviceLock, isReadLocked, updaterSleep, burstWriteLocks >>
       ELSE /\ serviceLock' = IF isReadLocked
                              THEN RUnlock(serviceLock, "StateUpdater")
                              ELSE serviceLock
            /\ isReadLocked' = FALSE
            /\ updaterSleep' = UpdaterSleep
            /\ burstWriteLocks' = 0
            /\ pcUpdater' = "select"
    /\ UNCHANGED << now, hosts, Config, updateChannel, updateSignal,
                    shutdownSignals, pcMain, timer, pingChecker, serviceChecker,
                    isWriteLocked, update, web, inflight, trackerCall, obs, lastDequeued,
                    batch, check, yamlConfig, mult, probes >>

\* updateSignal <- true (blocks while the channel is full); Unlock();
\* isWriteLocked = false; time.Sleep(1 * time.Second)
StateUpdaterSignal ==
    /\ pcUpdater = "signal"
    /\ updateSignal < SignalCap
    /\ updateSignal' = updateSignal + 1
    /\ serviceLock' = Unlock(serviceLock, "StateUpdater")
    /\ isWriteLocked' = FALSE
    /\ updaterSleep' = UpdaterSleep
    /\ burstWriteLocks' = 0
    /\ pcUpdater' = "select"
    /\ UNCHANGED << now, hosts, Config, updateChannel, shutdownSignals, pcMain,
                    timer, pingChecker, serviceChecker, isReadLocked, update,
                    web, inflight, trackerCall, obs, lastDequeued,
                    batch, check, yamlConfig, mult, probes >>

(***************************************************************************)
(* WebContentUpdater: the renderer loop.                                   *)
(***************************************************************************)
\* What the model keeps of `data`: whether data.Hosts[i].Services is the
\* storage of sbd.Hosts[i].Services.
\* First snapshot: data.Hosts = make(...); copy(data.Hosts, sbd.Hosts); for every
\* host, host.Services = make(...); copy(host.Services, sbd.Hosts[i].Services).
\* Later ones: copy(data.Hosts, sbd.Hosts) copies every Host struct with its
\* Services slice header, so data.Hosts[i].Services now is the storage of
\* sbd.Hosts[i].Services; copy(host.Services, sbd.Hosts[i].Services) then copies
\* that storage onto itself.
AliasedAfterCopy(mode) == mode # "init"

\* WebContentUpdater has the read lock: the copy under the lock; RUnlock(); the
\* template execution and the page update; then the loop sleeps, or returns
\* after the shutdown signal.
Copied(mode) ==
    [ pc |-> IF mode = "shutdown" THEN "returned" ELSE "select",
      mode |-> mode,
      sleep |-> IF mode = "shutdown" THEN 0 ELSE WebSleep,
      aliased |-> AliasedAfterCopy(mode) ]

\* The pending sbd.serviceLock.RLock() returns (the one before the first
\* snapshot, or one that found the lock taken)
WebContentUpdaterCopy ==
    /\ web.pc = "rlock"
    /\ RLockable(serviceLock)
    /\ web' = Copied(web.mode)
    /\ UNCHANGED << now, hosts, Config, serviceLock, updateChannel, updateSignal,
                    shutdownSignals, pcMain, timer, pingChecker, serviceChecker,
                    pcUpdater, updaterSleep, isWriteLocked, isReadLocked, update,
                    inflight, burstWriteLocks, trackerCall, obs, lastDequeued,
                    batch, check, yamlConfig, mult, probes >>

\* case <-shutdown: sbd.serviceLock.RLock() is called
WebContentUpdaterShutdown ==
    /\ web.pc = "select"
    /\ web.sleep = 0
    /\ shutdownSignals["template"] > 0
    /\ shutdownSignals' = [shutdownSignals EXCEPT !["template"] = @ - 1]
    /\ web' = IF RLockable(serviceLock)
              THEN Copied("shutdown")
              ELSE [web EXCEPT !.pc = "rlock", !.mode = "shutdown"]
    /\ UNCHANGED << now, hosts, Config, serviceLock, updateChannel, updateSignal,
                    pcMain, timer, pingChecker, serviceChecker, pcUpdater,
                    updaterSleep, isWriteLocked, isReadLocked, update, inflight,
                    burstWriteLocks, trackerCall, obs, lastDequeued,
                    batch, check, yamlConfig, mult, probes >>

\* case <-update: sbd.serviceLock.RLock() is called
WebContentUpdaterUpdate ==
    /\ web.pc = "select"
    /\ web.sleep = 0
    /\ updateSignal > 0
    /\ updateSignal' = updateSignal - 1
    /\ web' = IF RLockable(serviceLock)
              THEN Copied("update")
              ELSE [web EXCEPT !.pc = "rlock", !.mode = "update"]
    /\ UNCHANGED << now, hosts, Config, serviceLock, updateChannel,
                    shutdownSignals, pcMain, timer, pingChecker, serviceChecker,
                    pcUpdater, updaterSleep, isWriteLocked, isReadLocked, update,
                    inflight, burstWriteLocks, trackerCall, obs, lastDequeued,
                    batch, check, yamlConfig, mult, probes >>

\* default: template execution, page update, time.Sleep(1 * time.Second)
WebContentUpdaterDefault ==
    /\ web.pc = "select"
    /\ web.sleep = 0
    /\ shutdownSignals["template"] = 0
    /\ updateSignal = 0
    /\ web' = [web EXCEPT !.sleep = WebSleep]
    /\ UNCHANGED << now, hosts, Config, serviceLock, updateChannel, updateSignal,
                    shutdownSignals, pcMain, timer, pingChecker, serviceChecker,
                    pcUpdater, updaterSleep, isWriteLocked, isReadLocked, update,
                    inflight, burstWriteLocks, trackerCall, obs, lastDequeued,
                    batch, check, yamlConfig, mult, probes >>

(***************************************************************************)
(* The clock.                                                              *)
(***************************************************************************)

\* One second passes: the clock advances (it saturates at its horizon) and
\* every running sleep and the armed timer have one second less to wait.
Elapse(d) == Max(d - 1, 0)

Tick ==
    /\ now' = Min(now + 1, MaxTime)
    /\ timer' = [timer EXCEPT !.after = Elapse(@)]
    /\ pingChecker' = [pingChecker EXCEPT !.sleep = Elapse(@)]
    /\ serviceChecker' = [serviceChecker EXCEPT !.sleep = Elapse(@)]
    /\ updaterSleep' = Elapse(updaterSleep)
    /\ web' = [web EXCEPT !.sleep = Elapse(@)]
    /\ UNCHANGED << hosts, Config, serviceLock, updateChannel, updateSignal,
                    shutdownSignals, pcMain, pcUpdater, isWriteLocked,
                    isReadLocked, update, inflight, burstWriteLocks, trackerCall,
                    obs, lastDequeued, batch, check, yamlConfig, mult, probes >>

(***************************************************************************)
(* The running system.                                                     *)
(***************************************************************************)

\* No SetUp call recorded / no observation recorded.
NoSetUp == [ called |-> FALSE, state |-> FALSE, at |-> 0,
             before |-> << FALSE, 0, 0, 0 >> ]

NoObservation == [ at |-> -1, up |-> [ t \in Targets |-> 0 ],
                   down |-> [ t \in Targets |-> 0 ] ]

\* The state when main calls sbd.Start(): the scoreboard parsed from a valid
\* configuration, nothing started.
Init ==
    /\ now = 0
    /\ hosts = ConfiguredHosts
    /\ Config = ConfiguredConfig
    /\ serviceLock = NoLock
    /\ updateChannel = << >>
    /\ updateSignal = 0
    /\ shutdownSignals = [ ch \in {"ping", "service", "updater", "template"} |-> 0 ]
    /\ pcMain = "AfterFunc"
    /\ timer = [ pc |-> "unset", after |-> 0 ]
    /\ pingChecker = Loop("off")
    /\ serviceChecker = Loop("off")
    /\ pcUpdater = "off"
    /\ updaterSleep = 0
    /\ isWriteLocked = FALSE
    /\ isReadLocked = FALSE
    /\ update = NoUpdate
    /\ web = [ pc |-> "off", mode |-> "init", sleep |-> 0, aliased |-> FALSE ]
    /\ inflight = [ t \in Targets |-> 0 ]
    /\ burstWriteLocks = 0
    /\ trackerCall = [ t \in Targets |-> NoSetUp ]
    /\ obs = NoObservation
    /\ lastDequeued = [ t \in Targets |-> NoneDequeued ]
    /\ batch = NoBatch
    /\ check = NoCheck
    /\ yamlConfig = NoYamlConfig
    /\ mult = NoMult
    /\ probes = NoProbes

Next ==
    \/ Tick
    \/ MainAfterFunc
    \/ startScoring
    \/ MainLaunch
    \/ TimerFire
    \/ TimerLockCall
    \/ TimerLock
    \/ PingCheckerShutdown
    \/ PingCheckerDefault
    \/ PingCheckerRLock
    \/ PingCheckerFanOut
    \/ ServiceCheckerShutdown
    \/ ServiceCheckerDefault
    \/ ServiceCheckerRLock
    \/ ServiceCheckerFanOut
    \/ \E t \in Targets : ProbeReturn(t)
    \/ StateUpdaterShutdown
    \/ StateUpdaterReceive
    \/ StateUpdaterRLock
    \/ StateUpdaterLock
    \/ StateUpdaterDefault
    \/ StateUpdaterSignal
    \/ WebContentUpdaterCopy
    \/ WebContentUpdaterShutdown
    \/ WebContentUpdaterUpdate
    \/ WebContentUpdaterDefault

Spec == Init /\ [][Next]_vars

\* The Go scheduler runs every goroutine that can run, the runtime fires a timer
\* that is due, and time passes.
Fairness ==
    /\ WF_vars(Tick)
    /\ WF_vars(MainAfterFunc \/ startScoring \/ MainLaunch)
    /\ WF_vars(TimerFire \/ TimerLockCall \/ TimerLock)
    /\ WF_vars(PingCheckerShutdown \/ PingCheckerDefault \/ PingCheckerRLock
                  \/ PingCheckerFanOut)
    /\ WF_vars(ServiceCheckerShutdown \/ ServiceCheckerDefault \/ ServiceCheckerRLock
                  \/ ServiceCheckerFanOut)
    /\ \A t \in TargetsOf(ConfiguredHosts) : WF_vars(ProbeReturn(t))
    /\ WF_vars(StateUpdaterShutdown \/ StateUpdaterReceive \/ StateUpdaterRLock
                  \/ StateUpdaterLock \/ StateUpdaterDefault \/ StateUpdaterSignal)
    /\ WF_vars(WebContentUpdaterCopy \/ WebContentUpdaterShutdown
                  \/ WebContentUpdaterUpdate \/ WebContentUpdaterDefault)

FairSpec == Spec /\ Fairness

(***************************************************************************)
(* Claims about the running system, checked under Spec and FairSpec.       *)
(***************************************************************************)
\* C4. Frozen accounting: once CompetitionEnded is true, State.GetUptime and
\* State.GetDowntime of every Host and Service return the same value at every
\* later instant, whatever the timer, the probe loops and StateUpdater do.
FrozenAccounting ==
    [][ (Config.CompetitionEnded /\ Config'.CompetitionEnded) =>
            \A t \in Targets :
                /\ StateGetUptime(hosts', Config', t, now')
                       = StateGetUptime(hosts, Config, t, now)
                /\ StateGetDowntime(hosts', Config', t, now')
                       = StateGetDowntime(hosts, Config, t, now) ]_vars

\* C5. Every probe task that runs to its end has sent exactly one ServiceUpdate,
\* whatever it met: PingHost {host IP, ServiceUpdate false, ServiceName ""},
\* CheckService {host IP, ServiceUpdate true, the service's Name}; and nothing
\* else sends on the update channel.
ProbeSendsExactlyOne ==
    [][ /\ \A t \in Targets :
              inflight'[t] < inflight[t] =>
                  /\ inflight'[t] = inflight[t] - 1
                  /\ Len(updateChannel') = Len(updateChannel) + 1
                  /\ SubSeq(updateChannel', 1, Len(updateChannel)) = updateChannel
                  /\ LET sent == updateChannel'[Len(updateChannel')]
                     IN  /\ sent.IP = hosts[t[1]].IP
                         /\ sent.ServiceUpdate = (t[2] # 0)
                         /\ sent.ServiceName = IF t[2] = 0 THEN ""
                                               ELSE hosts[t[1]].Services[t[2]].Name
                         /\ sent.IsUp \in BOOLEAN
        /\ Len(updateChannel') > Len(updateChannel) =>
              \E t \in Targets : inflight'[t] = inflight[t] - 1 ]_vars

\* Both probes have run to their end, each met a failure, and their two updates
\* are on the channel.
ProbeSendsExactlyOneWitness ==
    /\ Len(updateChannel) = 2
    /\ \A t \in Targets : inflight[t] = 0
    /\ \A i \in 1..Len(updateChannel) : ~updateChannel[i].IsUp
    /\ \E i \in 1..Len(updateChannel) : updateChannel[i].ServiceUpdate
    /\ \E i \in 1..Len(updateChannel) : ~updateChannel[i].ServiceUpdate

\* C6. Every SetUp call StateUpdater makes on a Host or Service of the shared
\* State is made with the write lock of serviceLock held by StateUpdater: never
\* with only the read lock, never with no lock.
SetUpUnderWriteLock ==
    [][ (pcMain = "serving" /\ hosts' # hosts) =>
            /\ serviceLock'.writer = "StateUpdater"
            /\ serviceLock'.readers = {}
            /\ isWriteLocked'
            /\ ~isReadLocked' ]_vars

\* StateUpdater holds the write lock and has, some time after the start of
\* scoring, flipped the service under it.
SetUpUnderWriteLockWitness ==
    /\ serviceLock.writer = "StateUpdater"
    /\ isWriteLocked
    /\ \E t \in ServiceTargets :
          /\ Entity(hosts, t).isUp # Config.DefaultServiceState
          /\ Entity(hosts, t).previousUpdateTime > Config.StartTime

\* C7. Whenever StateUpdater holds the read or the write lock and the update
\* queue is empty, StateUpdater eventually holds no lock and is Idle.
LockEventuallyReleased ==
    ((isReadLocked \/ isWriteLocked) /\ Len(updateChannel) = 0)
        ~> (/\ ~isReadLocked
            /\ ~isWriteLocked
            /\ serviceLock.writer # "StateUpdater"
            /\ "StateUpdater" \notin serviceLock.readers
            /\ pcUpdater = "select")

\* C8. StateUpdater sends on updateSignal only from its default branch and only
\* with the write lock held; on observing the queue empty with the write lock
\* held it goes on to the send, and with only the read lock or no lock it ends
\* the branch without sending.
SignalIffWriteLocked ==
    [][ /\ updateSignal' > updateSignal =>
              (pcUpdater = "signal" /\ isWriteLocked
               /\ serviceLock.writer = "StateUpdater")
        /\ (pcUpdater # "signal" /\ pcUpdater' = "signal") =>
              (isWriteLocked /\ Len(updateChannel) = 0)
        /\ StateUpdaterDefault =>
              IF isWriteLocked
              THEN pcUpdater' = "signal"
              ELSE pcUpdater' = "select" /\ updateSignal' = updateSignal ]_vars

\* The signal of a write cycle is on updateSignal, the write lock is released and
\* StateUpdater sleeps.
SignalIffWriteLockedWitness ==
    /\ updateSignal = SignalCap
    /\ pcUpdater = "select"
    /\ updaterSleep = UpdaterSleep
    /\ ~isWriteLocked
    /\ serviceLock.writer = "none"
    /\ \E t \in Targets : Entity(hosts, t).isUp # Config.DefaultServiceState

\* C9. Batching: between two Idle states StateUpdater acquires the write lock at
\* most once; it gives the lock up only after observing the queue empty, never
\* downgrades it, and every mutation of the burst is made under that one
\* acquisition.
Batching ==
    [][ /\ burstWriteLocks' <= 1
        /\ (serviceLock.writer = "StateUpdater" /\ serviceLock'.writer # "StateUpdater")
              => pcUpdater = "signal"
        /\ (isWriteLocked /\ ~isWriteLocked') => pcUpdater = "signal"
        /\ isWriteLocked' => ~isReadLocked'
        /\ (pcMain = "serving" /\ hosts' # hosts) =>
              (burstWriteLocks' = 1 /\ serviceLock'.writer = "StateUpdater") ]_vars

\* No time has passed since Start, so StateUpdater has not slept yet: within its
\* first burst, under the write lock it acquired once, it has flipped both the
\* host and the service.
BatchingWitness ==
    /\ pcMain = "serving"
    /\ now = 0
    /\ isWriteLocked
    /\ burstWriteLocks = 1
    /\ \A t \in Targets : Entity(hosts, t).isUp # Config.DefaultServiceState

\* Name, IP, and the Name, Protocol and Response of every service, of every host.
Identity(hs) ==
    [ h \in 1..Len(hs) |->
        [ Name |-> hs[h].Name, IP |-> hs[h].IP,
          Services |-> [ i \in 1..Len(hs[h].Services) |->
                           [ Name |-> hs[h].Services[i].Name,
                             Protocol |-> hs[h].Services[i].Protocol,
                             Response |-> hs[h].Services[i].Response ] ] ] ]

\* C10. Single writer: once the loops are launched, a step that modifies the flag,
\* uptime, downtime or previousUpdateTime of a Host or Service is a step of
\* StateUpdater, holding the write lock, and no step of PingChecker,
\* ServiceChecker, a probe task, WebContentUpdater or the timer; and no step adds
\* or removes a Host or Service or changes an IP or a Name.
SingleWriter ==
    [][ pcMain = "serving" =>
            /\ hosts' # hosts => Identity(hosts') = Identity(hosts)
            /\ hosts' # hosts =>
                  /\ pcUpdater \in {"select", "rlock", "wlock"}
                  /\ pcUpdater' = "select"
                  /\ serviceLock'.writer = "StateUpdater"
                  /\ UNCHANGED << pingChecker, serviceChecker, inflight, web, timer,
                                  updateSignal, shutdownSignals >>
                  /\ Len(updateChannel') <= Len(updateChannel) ]_vars

\* The loops run, both probes have returned, and StateUpdater, the two checker
\* loops having fanned out, has flipped the host.
SingleWriterWitness ==
    /\ pcMain = "serving"
    /\ pingChecker.rounds > 0
    /\ serviceChecker.rounds > 0
    /\ \A t \in Targets : inflight[t] = 0
    /\ \E t \in HostTargets : Entity(hosts, t).isUp # Config.DefaultServiceState

(***************************************************************************)
(* The UptimeTracking capability on its own: after startScoring, any       *)
(* sequence of SetUp calls and observations at any instants.               *)
(***************************************************************************)
\* The state startScoring leaves, for either default service state.
TrackerInit ==
    /\ now = 0
    /\ \E defaultState \in BOOLEAN :
          /\ hosts = [h \in 1..Len(ConfiguredHosts) |->
                         ScoredHost(ConfiguredHosts[h], 0, defaultState)]
          /\ Config = [ConfiguredConfig EXCEPT
                           !.DefaultServiceState = defaultState,
                           !.StopTime = ConfiguredConfig.CompetitionDuration]
    /\ serviceLock = NoLock
    /\ updateChannel = << >>
    /\ updateSignal = 0
    /\ shutdownSignals = [ ch \in {"ping", "service", "updater", "template"} |-> 0 ]
    /\ pcMain = "launch"
    /\ timer = [ pc |-> "armed", after |-> ConfiguredConfig.CompetitionDuration ]
    /\ pingChecker = Loop("off")
    /\ serviceChecker = Loop("off")
    /\ pcUpdater = "off"
    /\ updaterSleep = 0
    /\ isWriteLocked = FALSE
    /\ isReadLocked = FALSE
    /\ update = NoUpdate
    /\ web = [ pc |-> "off", mode |-> "init", sleep |-> 0, aliased |-> FALSE ]
    /\ inflight = [ t \in Targets |-> 0 ]
    /\ burstWriteLocks = 0
    /\ trackerCall = [ t \in Targets |-> NoSetUp ]
    /\ obs = NoObservation
    /\ lastDequeued = [ t \in Targets |-> NoneDequeued ]
    /\ batch = NoBatch
    /\ check = NoCheck
    /\ yamlConfig = NoYamlConfig
    /\ mult = NoMult
    /\ probes = NoProbes

TrackerUnchanged ==
    UNCHANGED << Config, serviceLock, updateChannel, updateSignal,
                 shutdownSignals, pcMain, timer, pingChecker, serviceChecker,
                 pcUpdater, updaterSleep, isWriteLocked, isReadLocked, update,
                 web, inflight, burstWriteLocks, lastDequeued, batch, check, yamlConfig, mult, probes >>

\* time.Now() advances
TrackerTick ==
    /\ now < MaxTrackerTime
    /\ now' = now + 1
    /\ UNCHANGED << hosts, trackerCall, obs >>
    /\ TrackerUnchanged

\* tracker.SetUp(state) on a Host or a Service, at the instant now
TrackerSetUp(t, state) ==
    /\ hosts' = SetUp(hosts, t, state, now)
    /\ trackerCall' = [trackerCall EXCEPT ![t] =
                          [ called |-> TRUE, state |-> state, at |-> now,
                            before |-> Tracking(Entity(hosts, t)) ]]
    /\ UNCHANGED << now, obs >>
    /\ TrackerUnchanged

\* tracker.GetUptime(time.Now()) and tracker.GetDowntime(time.Now()) of every entity
TrackerObserve ==
    /\ obs' = [ at |-> now,
                up |-> [ t \in Targets |-> GetUptime(hosts, t, now) ],
                down |-> [ t \in Targets |-> GetDowntime(hosts, t, now) ] ]
    /\ UNCHANGED << now, hosts, trackerCall >>
    /\ TrackerUnchanged

TrackerNext ==
    \/ TrackerTick
    \/ \E t \in Targets, state \in BOOLEAN : TrackerSetUp(t, state)
    \/ TrackerObserve

TrackerSpec == TrackerInit /\ [][TrackerNext]_vars

(***************************************************************************)
(* Claims about UptimeTracking, checked under TrackerSpec.                 *)
(***************************************************************************)
\* C1. Conservation of time: for every Host and Service and any two observation
\* instants t1 < t2 (obs.at and now), whatever SetUp calls were made, the growth
\* of GetUptime plus the growth of GetDowntime equals t2 - t1, each observation
\* taken with its own instant as the reference time.
ConservationOfTime ==
    (obs.at >= 0 /\ obs.at < now) =>
        \A t \in Targets :
            (GetUptime(hosts, t, now) - obs.up[t])
            + (GetDowntime(hosts, t, now) - obs.down[t]) = now - obs.at

\* Two observations with, in between, a flip of a host and a flip of a service.
ConservationWitness ==
    /\ obs.at >= 0
    /\ obs.at < now
    /\ \A t \in Targets :
          /\ trackerCall[t].called
          /\ trackerCall[t].before[1] # trackerCall[t].state
          /\ trackerCall[t].at > obs.at
          /\ trackerCall[t].at < now

\* C2. Idempotence of SetUp: after SetUp(s) on a Host or Service whose flag
\* already was s, its flag, uptime, downtime and previousUpdateTime are what
\* they were before the call.
SetUpIdempotent ==
    \A t \in Targets :
        (trackerCall[t].called /\ trackerCall[t].before[1] = trackerCall[t].state) =>
            Tracking(Entity(hosts, t)) = trackerCall[t].before

\* SetUp(s) with the flag already s was called on the host and on the service,
\* later than their last flip.
SetUpIdempotentWitness ==
    \A t \in Targets :
        /\ trackerCall[t].called
        /\ trackerCall[t].before[1] = trackerCall[t].state
        /\ trackerCall[t].at > trackerCall[t].before[4]

\* C3. A flip (SetUp(s) with s different from the flag) adds now minus
\* previousUpdateTime to the bucket of the state exited (downtime when flipping
\* to up, uptime when flipping to down), leaves the other bucket, sets
\* previousUpdateTime to now and the flag to s.
FlipAccounting ==
    \A t \in Targets :
        LET call == trackerCall[t]
            elapsed == call.at - call.before[4]
        IN  (call.called /\ call.before[1] # call.state) =>
                Tracking(Entity(hosts, t)) =
                    IF call.state
                    THEN << call.state, call.before[2], call.before[3] + elapsed, call.at >>
                    ELSE << call.state, call.before[2] + elapsed, call.before[3], call.at >>

\* The host was flipped to down and the service to up, each after a non-zero
\* time in the state it left.
FlipAccountingWitness ==
    /\ \A t \in Targets :
          /\ trackerCall[t].called
          /\ trackerCall[t].before[1] # trackerCall[t].state
          /\ trackerCall[t].at > trackerCall[t].before[4]
    /\ \E t \in HostTargets : ~trackerCall[t].state
    /\ \E t \in ServiceTargets : trackerCall[t].state

CompetitionEndedEventually ==
    /\ (timer.pc = "fired") ~> Config.CompetitionEnded
    /\ [][(~Config.CompetitionEnded /\ Config'.CompetitionEnded) =>
             /\ timer.pc \in {"fired", "lock"} /\ timer'.pc = "done"
             /\ serviceLock.writer = "none" /\ serviceLock.readers = {}]_vars

\* C13: after the end timer has fired, PingChecker, ServiceChecker,
\* StateUpdater and WebContentUpdater all eventually return, and when the timer
\* is due each of the four shutdown channels has a free slot (its sends do not
\* block).
LoopsEventuallyReturn ==
    /\ (timer.pc = "fired") ~> /\ pingChecker.pc = "returned"
                               /\ serviceChecker.pc = "returned"
                               /\ pcUpdater = "returned"
                               /\ web.pc = "returned"
    /\ [](timer.pc = "armed" =>
             \A ch \in DOMAIN shutdownSignals : shutdownSignals[ch] < SignalCap)

(***************************************************************************)
(* Claims about the order in which StateUpdater applies results.           *)
(***************************************************************************)
\* C14: StateUpdater applies results in the order it dequeues them: whenever
\* the update channel is empty and StateUpdater is not in the middle of a
\* result, the flag of every Host and Service is the IsUp of the result most
\* recently dequeued for it, or the default state when none was dequeued.
PerKeyDeliveryOrder ==
    ( /\ pcMain = "serving"
      /\ updateChannel = << >>
      /\ pcUpdater \in {"select", "signal", "returned"} )
    => \A t \in Targets :
          Entity(hosts, t).isUp = IF lastDequeued[t].any
                                  THEN lastDequeued[t].IsUp
                                  ELSE Config.DefaultServiceState

\* The queue is drained after the service was found down and, a second later,
\* up again: two results for one key, the later one is the flag.
PerKeyDeliveryOrderWitness ==
    /\ pcMain = "serving"
    /\ updateChannel = << >>
    /\ pcUpdater \in {"select", "signal", "returned"}
    /\ \E t \in ServiceTargets :
          /\ lastDequeued[t].any
          /\ lastDequeued[t].IsUp
          /\ Entity(hosts, t).isUp
          /\ Entity(hosts, t).downtime > 0
    /\ \E t \in HostTargets : ~lastDequeued[t].any

(***************************************************************************)
(* StateUpdater on its own, given a batch of results in some order: two    *)
(* hosts of one service each, every entity in the default state, the       *)
(* update channel holding the batch, no other goroutine running.           *)
(***************************************************************************)
BatchHosts ==
    << NewHost("web", "10.0.0.1", << NewService("http", "tcp", "") >>),
       NewHost("db", "10.0.0.2", << NewService("sql", "tcp", "") >>) >>

\* The results PingHost and CheckService can send for the entities of hs.
ResultsFor(hs) ==
    { ServiceUpdate(hs[h].IP, FALSE, isUp, "") :
          h \in 1..Len(hs), isUp \in BOOLEAN }
    \cup UNION { { ServiceUpdate(hs[h].IP, TRUE, isUp, hs[h].Services[i].Name) :
                      i \in 1..Len(hs[h].Services), isUp \in BOOLEAN } :
                 h \in 1..Len(hs) }

\* The identity key of a result: the address for a ping result, the address
\* and the service name for a service result.
Key(u) == << u.ServiceUpdate, u.IP, u.ServiceName >>

\* The batches of results that all address distinct keys.
Batches(hs) ==
    { b \in SUBSET ResultsFor(hs) :
          /\ Cardinality(b) <= MaxBatch
          /\ \A u, v \in b : u # v => Key(u) # Key(v) }

\* The orders in which a batch can sit in the update channel.
Orders(b) ==
    { q \in [1..Cardinality(b) -> b] :
          \A i, j \in 1..Cardinality(b) : i # j => q[i] # q[j] }

BatchInit ==
    /\ now = 0
    /\ \E defaultState \in BOOLEAN :
          /\ hosts = [h \in 1..Len(BatchHosts) |->
                         ScoredHost(BatchHosts[h], 0, defaultState)]
          /\ Config = [ConfiguredConfig EXCEPT
                           !.DefaultServiceState = defaultState,
                           !.StopTime = ConfiguredConfig.CompetitionDuration]
    /\ batch \in Batches(BatchHosts)
    /\ updateChannel \in Orders(batch)
    /\ serviceLock = NoLock
    /\ updateSignal = 0
    /\ shutdownSignals = [ ch \in {"ping", "service", "updater", "template"} |-> 0 ]
    /\ pcMain = "serving"
    /\ timer = [ pc |-> "armed", after |-> ConfiguredConfig.CompetitionDuration ]
    /\ pingChecker = Loop("off")
    /\ serviceChecker = Loop("off")
    /\ pcUpdater = "select"
    /\ updaterSleep = 0
    /\ isWriteLocked = FALSE
    /\ isReadLocked = FALSE
    /\ update = NoUpdate
    /\ web = [ pc |-> "off", mode |-> "init", sleep |-> 0, aliased |-> FALSE ]
    /\ inflight = [ t \in Targets |-> 0 ]
    /\ burstWriteLocks = 0
    /\ trackerCall = [ t \in Targets |-> NoSetUp ]
    /\ obs = NoObservation
    /\ lastDequeued = [ t \in Targets |-> NoneDequeued ]
    /\ check = NoCheck
    /\ yamlConfig = NoYamlConfig
    /\ mult = NoMult
    /\ probes = NoProbes

BatchNext ==
    \/ StateUpdaterReceive
    \/ StateUpdaterDefault
    \/ StateUpdaterSignal

BatchSpec == BatchInit /\ [][BatchNext]_vars

\* C15: order independence across keys.  For a batch of results that all
\* address distinct identity keys, whatever the order in which StateUpdater
\* dequeues the batch, once it is through the flag of every Host and Service is
\* the IsUp of the batch's result for its key, and the default state when the
\* batch has none: the final flags depend on the batch, not on its order.
OrderIndependence ==
    (updateChannel = << >> /\ pcUpdater \in {"select", "signal"}) =>
        \A t \in Targets :
            Entity(hosts, t).isUp =
                IF \E u \in batch : TargetOf(hosts, u) = t
                THEN (CHOOSE u \in batch : TargetOf(hosts, u) = t).IsUp
                ELSE Config.DefaultServiceState

\* A batch of three results for three keys, a host and its own service with
\* opposite results among them, has been worked off.
OrderIndependenceWitness ==
    /\ updateChannel = << >>
    /\ pcUpdater = "signal"
    /\ Cardinality(batch) = 3
    /\ \E u, v \in batch :
          /\ u.IP = v.IP
          /\ ~u.ServiceUpdate /\ v.ServiceUpdate
          /\ u.IsUp # v.IsUp
          /\ Entity(hosts, TargetOf(hosts, u)).isUp = u.IsUp
          /\ Entity(hosts, TargetOf(hosts, v)).isUp = v.IsUp

(***************************************************************************)
(* main(): the config file is validated and parsed, then Start() arms the  *)
(* timer, calls startScoring and launches the loops.                       *)
(***************************************************************************)
\* The config files initConfig can have decoded.
YamlConfigs ==
    { YamlConfigOf(f) : f \in Variants(SocketFields, MaxDefects)
                               \cup Variants(HostCommandFields, MaxDefects) }

\* sbd = NewScoreboard(); config, err := initConfig() with err == nil
ConfigInit ==
    /\ now = 0
    /\ yamlConfig \in YamlConfigs
    /\ mult = NoMult
    /\ probes = NoProbes
    /\ hosts = << >>
    /\ Config = ZeroConfig
    /\ serviceLock = NoLock
    /\ updateChannel = << >>
    /\ updateSignal = 0
    /\ shutdownSignals = [ ch \in {"ping", "service", "updater", "template"} |-> 0 ]
    /\ pcMain = "validateConfig"
    /\ timer = [ pc |-> "unset", after |-> 0 ]
    /\ pingChecker = Loop("off")
    /\ serviceChecker = Loop("off")
    /\ pcUpdater = "off"
    /\ updaterSleep = 0
    /\ isWriteLocked = FALSE
    /\ isReadLocked = FALSE
    /\ update = NoUpdate
    /\ web = [ pc |-> "off", mode |-> "init", sleep |-> 0, aliased |-> FALSE ]
    /\ inflight = [ t \in Targets |-> 0 ]
    /\ burstWriteLocks = 0
    /\ trackerCall = [ t \in Targets |-> NoSetUp ]
    /\ obs = NoObservation
    /\ lastDequeued = [ t \in Targets |-> NoneDequeued ]
    /\ batch = NoBatch
    /\ check = NoCheck

\* if err := config.validateConfig(); err != nil { ilog.Println(err); os.Exit(1) }
MainValidateConfig ==
    /\ pcMain = "validateConfig"
    /\ pcMain' = IF validateConfig(yamlConfig)
                 THEN "exited" ELSE "parseConfigToScoreboard"
    /\ UNCHANGED << now, hosts, Config, serviceLock, updateChannel, updateSignal,
                    shutdownSignals, timer, pingChecker, serviceChecker, pcUpdater,
                    updaterSleep, isWriteLocked, isReadLocked, update, web,
                    inflight, burstWriteLocks, trackerCall, obs, lastDequeued,
                    batch, check, yamlConfig, mult, probes >>

\* if err := parseConfigToScoreboard(&config, &sbd); err != nil { ...; os.Exit(1) }
MainParseConfigToScoreboard ==
    /\ pcMain = "parseConfigToScoreboard"
    /\ \E readOk \in BOOLEAN :
          LET parsed == parseConfigToScoreboard(yamlConfig, readOk)
          IN  IF parsed.err
              THEN /\ pcMain' = "exited"
                   /\ UNCHANGED << hosts, Config, inflight, trackerCall, obs,
                                   lastDequeued >>
              ELSE /\ pcMain' = "Start"
                   /\ hosts' = parsed.Hosts
                   /\ Config' = parsed.Config
                   /\ inflight' = [ t \in Targets' |-> 0 ]
                   /\ trackerCall' = [ t \in Targets' |-> NoSetUp ]
                   /\ obs' = NoObservation'
                   /\ lastDequeued' = [ t \in Targets' |-> NoneDequeued ]
    /\ UNCHANGED << now, serviceLock, updateChannel, updateSignal,
                    shutdownSignals, timer, pingChecker, serviceChecker, pcUpdater,
                    updaterSleep, isWriteLocked, isReadLocked, update, web,
                    burstWriteLocks, batch, check, yamlConfig, mult, probes >>

\* testPrivileges() exits without the privileges for ICMP and port 80;
\* otherwise sbd.Start() is called and creates its channels.
MainStart ==
    /\ pcMain = "Start"
    /\ \E privileged \in BOOLEAN :
          pcMain' = IF privileged THEN "AfterFunc" ELSE "exited"
    /\ UNCHANGED << now, hosts, Config, serviceLock, updateChannel, updateSignal,
                    shutdownSignals, timer, pingChecker, serviceChecker, pcUpdater,
                    updaterSleep, isWriteLocked, isReadLocked, update, web,
                    inflight, burstWriteLocks, trackerCall, obs, lastDequeued,
                    batch, check, yamlConfig, mult, probes >>

ConfigNext ==
    \/ MainValidateConfig
    \/ MainParseConfigToScoreboard
    \/ MainStart
    \/ MainAfterFunc
    \/ startScoring
    \/ MainLaunch

ConfigSpec == ConfigInit /\ [][ConfigNext]_vars

\* C16: a configuration in which a service has an uncompilable response
\* pattern is rejected by validateConfig or parseConfigToScoreboard: main never
\* gets to Start() with it, and no probe loop is started with it.
UncompilablePatternRejected ==
    (\E h \in 1..Len(yamlConfig.Hosts) :
        \E i \in 1..Len(yamlConfig.Hosts[h].Services) :
            ~Compiles(yamlConfig.Hosts[h].Services[i].Response))
    => /\ pcMain \in {"validateConfig", "parseConfigToScoreboard", "exited"}
       /\ pingChecker.pc = "off"
       /\ serviceChecker.pc = "off"

(***************************************************************************)
(* One CheckService call, step by step: the dial of a socket service; for  *)
(* a host-command service the child process, the watchdog that             *)
(* time.AfterFunc starts, cmd.Wait and the completion token on sig.        *)
(***************************************************************************)
\* The services a validated config file can hold: a host-command service has
\* a response.
CheckedServices ==
    { NewService("probe", protocol, response) :
          protocol \in {"tcp", "udp", "host-command"}, response \in Patterns }
    \ { NewService("probe", "host-command", "") }

\* What the probe has met before it dials or starts its child.
NoEnv == [ dialOk |-> FALSE, read |-> "", startOk |-> FALSE,
           stdout |-> "", stderr |-> "" ]

\* go service.CheckService(updateChannel, host.IP, sbd.Config.ServiceTimeout)
CheckServiceInit ==
    /\ now = 0
    /\ \E service \in CheckedServices, timeout \in 1..MaxTimeout :
          /\ hosts = << NewHost("web", "10.0.0.1", << service >>) >>
          /\ check = [ pc |-> "call", service |-> service, ip |-> "10.0.0.1",
                       timeout |-> timeout, env |-> NoEnv,
                       proc |-> "none",       \* the child: none, running, exited, reaped
                       watchdog |-> "unset",  \* the AfterFunc function: unset, armed, default, done
                       after |-> 0,           \* time left until the watchdog runs
                       sig |-> 0,             \* values queued in sig, of capacity 1
                       kills |-> 0,           \* SIGKILLs the watchdog has sent
                       expiredRunning |-> FALSE,  \* the child was running when the timeout expired
                       expiredReaped |-> FALSE,   \* cmd.Wait had returned when the timeout expired
                       killedReaped |-> FALSE ]   \* a SIGKILL went to the pid of a reaped child
    /\ Config = ConfiguredConfig
    /\ serviceLock = NoLock
    /\ updateChannel = << >>
    /\ updateSignal = 0
    /\ shutdownSignals = [ ch \in {"ping", "service", "updater", "template"} |-> 0 ]
    /\ pcMain = "serving"
    /\ timer = [ pc |-> "armed", after |-> ConfiguredConfig.CompetitionDuration ]
    /\ pingChecker = Loop("off")
    /\ serviceChecker = Loop("off")
    /\ pcUpdater = "off"
    /\ updaterSleep = 0
    /\ isWriteLocked = FALSE
    /\ isReadLocked = FALSE
    /\ update = NoUpdate
    /\ web = [ pc |-> "off", mode |-> "init", sleep |-> 0, aliased |-> FALSE ]
    /\ inflight = [ t \in Targets |-> 0 ]
    /\ burstWriteLocks = 0
    /\ trackerCall = [ t \in Targets |-> NoSetUp ]
    /\ obs = NoObservation
    /\ lastDequeued = [ t \in Targets |-> NoneDequeued ]
    /\ batch = NoBatch
    /\ yamlConfig = NoYamlConfig
    /\ mult = NoMult
    /\ probes = NoProbes

CheckUnchanged ==
    UNCHANGED << now, hosts, Config, serviceLock, updateSignal, shutdownSignals,
                 pcMain, timer, pingChecker, serviceChecker, pcUpdater,
                 updaterSleep, isWriteLocked, isReadLocked, update, web,
                 inflight, burstWriteLocks, trackerCall, obs, lastDequeued,
                 batch, yamlConfig, mult, probes >>

\* net.DialTimeout(...); on success the payload is written and, with a response
\* pattern, the response is read; conn.Close()
CheckDial ==
    /\ check.pc = "call"
    /\ check.service.Protocol # "host-command"
    /\ \E env \in EnvsOf(check.service) :
          check' = [check EXCEPT !.env = env, !.pc = "send"]
    /\ UNCHANGED updateChannel
    /\ CheckUnchanged

\* cmd.Start(): the child runs, or it could not be started (cmd.Process stays nil)
CheckStart ==
    /\ check.pc = "call"
    /\ check.service.Protocol = "host-command"
    /\ \E startOk \in BOOLEAN :
          check' = [check EXCEPT !.env.startOk = startOk,
                                 !.proc = IF startOk THEN "running" ELSE "none",
                                 !.pc = "AfterFunc"]
    /\ UNCHANGED updateChannel
    /\ CheckUnchanged

\* time.AfterFunc(timeout, func() { ... })
CheckAfterFunc ==
    /\ check.pc = "AfterFunc"
    /\ check' = [check EXCEPT !.watchdog = "armed", !.after = check.timeout,
                              !.pc = "Wait"]
    /\ UNCHANGED updateChannel
    /\ CheckUnchanged

\* The child ends by itself, having written what it wrote to stdout and stderr.
ChildExit ==
    /\ check.proc = "running"
    /\ \E stdout \in Texts, stderr \in Texts :
          check' = [check EXCEPT !.proc = "exited", !.env.stdout = stdout,
                                 !.env.stderr = stderr]
    /\ UNCHANGED updateChannel
    /\ CheckUnchanged

\* A variant of cmd.Wait() that returns while the child is running.
CheckWaitReturnsEarly ==
    /\ check.pc = "Wait"
    /\ check' = [check EXCEPT !.pc = "sig"]
    /\ UNCHANGED updateChannel
    /\ CheckUnchanged

\* cmd.Wait() returns: the child has ended and is reaped, or it never started
CheckWait ==
    /\ check.pc = "Wait"
    /\ check.proc \in {"exited", "none"}
    /\ check' = [check EXCEPT !.proc = IF @ = "exited" THEN "reaped" ELSE @,
                              !.pc = "sig"]
    /\ UNCHANGED updateChannel
    /\ CheckUnchanged

\* sig <- true
CheckSig ==
    /\ check.pc = "sig"
    /\ check.sig < SignalCap
    /\ check' = [check EXCEPT !.sig = @ + 1, !.pc = "send"]
    /\ UNCHANGED updateChannel
    /\ CheckUnchanged

\* the two regexp.Match calls and updateChannel <- ServiceUpdate{...}
CheckSend ==
    /\ check.pc = "send"
    /\ Len(updateChannel) < UpdateChannelCap
    /\ updateChannel' = updateChannel \o CheckService(check.service, check.ip, check.env)
    /\ check' = [check EXCEPT !.pc = "done"]
    /\ CheckUnchanged

\* Time passes for the watchdog's timer.
CheckTick ==
    /\ check.watchdog = "armed"
    /\ check.after > 0
    /\ check' = [check EXCEPT !.after = @ - 1]
    /\ UNCHANGED updateChannel
    /\ CheckUnchanged

\* The timeout expires and the watchdog runs its select: case <-sig: return,
\* default when sig is empty.
WatchdogFire ==
    /\ check.watchdog = "armed"
    /\ check.after = 0
    /\ check' = IF check.sig > 0
                THEN [check EXCEPT !.sig = @ - 1, !.watchdog = "done"]
                ELSE [check EXCEPT !.watchdog = "default",
                                   !.expiredRunning = (check.proc = "running"),
                                   !.expiredReaped = (check.proc = "reaped")]
    /\ UNCHANGED updateChannel
    /\ CheckUnchanged

\* default: if cmd.Process != nil { syscall.Kill(cmd.Process.Pid, syscall.SIGKILL) }
\* A running child dies of it, with what it had written so far captured.
WatchdogKill ==
    /\ check.watchdog = "default"
    /\ IF ~check.env.startOk
       THEN check' = [check EXCEPT !.watchdog = "done"]
       ELSE IF check.proc = "running"
       THEN \E stdout \in Texts, stderr \in Texts :
               check' = [check EXCEPT !.watchdog = "done", !.kills = @ + 1,
                                      !.proc = "exited", !.env.stdout = stdout,
                                      !.env.stderr = stderr]
       ELSE check' = [check EXCEPT !.watchdog = "done", !.kills = @ + 1,
                                   !.killedReaped = (check.proc = "reaped")]
    /\ UNCHANGED updateChannel
    /\ CheckUnchanged

CheckServiceNext ==
    \/ CheckDial
    \/ CheckStart
    \/ CheckAfterFunc
    \/ ChildExit
    \/ CheckWait
    \/ CheckSig
    \/ CheckSend
    \/ CheckTick
    \/ WatchdogFire
    \/ WatchdogKill

CheckServiceSpec == CheckServiceInit /\ [][CheckServiceNext]_vars

(***************************************************************************)
(* Claims about CheckService, checked under CheckServiceSpec.              *)
(***************************************************************************)
\* C17: probe failures are collapsed to down.  A CheckService call whose dial
\* fails, or whose host-command child could not be started, sends exactly one
\* ServiceUpdate and it has IsUp = false, whatever the response pattern.
FailuresCollapseToDown ==
    ( /\ check.pc = "done"
      /\ IF check.service.Protocol = "host-command"
         THEN ~check.env.startOk
         ELSE ~check.env.dialOk )
    => /\ Len(updateChannel) = 1
       /\ ~updateChannel[1].IsUp

\* C18: for a tcp or udp service the IsUp sent is: the dial succeeded and (the
\* response pattern is empty or it matches the bytes read from the connection).
SocketResult ==
    (check.pc = "done" /\ check.service.Protocol # "host-command") =>
        /\ Len(updateChannel) = 1
        /\ updateChannel[1].ServiceUpdate
        /\ updateChannel[1].IsUp =
               ( /\ check.env.dialOk
                 /\ \/ check.service.Response = ""
                    \/ RegexpMatch(check.service.Response, check.env.read) )

\* A connection was made, a response was read and the pattern is not in it:
\* down; and the pattern was not empty.
SocketResultWitness ==
    /\ check.pc = "done"
    /\ check.service.Protocol = "tcp"
    /\ check.env.dialOk
    /\ check.service.Response = "up"
    /\ check.env.read = "down"
    /\ ~updateChannel[1].IsUp

\* C19: for a host-command service the IsUp sent is true exactly when the
\* response pattern matches the captured stdout or the captured stderr.
HostCommandResult ==
    (check.pc = "done" /\ check.service.Protocol = "host-command") =>
        /\ Len(updateChannel) = 1
        /\ updateChannel[1].ServiceUpdate
        /\ updateChannel[1].IsUp <=>
               \/ RegexpMatch(check.service.Response, check.env.stdout)
               \/ RegexpMatch(check.service.Response, check.env.stderr)

\* The child wrote the response to stderr only: up.
HostCommandResultWitness ==
    /\ check.pc = "done"
    /\ check.service.Protocol = "host-command"
    /\ check.service.Response = "up"
    /\ check.env.stdout = "down"
    /\ check.env.stderr = "up"
    /\ updateChannel[1].IsUp

\* C20: the watchdog of a host-command probe.  The watchdog sends at most one
\* SIGKILL, and exactly one once it has run if the child was still running
\* when the timeout expired; a result is sent only after cmd.Wait has returned,
\* so the child, if there was one, has ended and is reaped; and the result is
\* computed from the output captured until then.
WatchdogDiscipline ==
    check.service.Protocol = "host-command" =>
        /\ check.kills <= 1
        /\ (check.expiredRunning /\ check.watchdog = "done") => check.kills = 1
        /\ updateChannel # << >> =>
              /\ check.pc = "done"
              /\ check.proc = IF check.env.startOk THEN "reaped" ELSE "none"
              /\ updateChannel =
                     CheckService(check.service, check.ip, check.env)

\* The child was running when the timeout expired, was killed, and the result
\* comes from what it had written.
WatchdogDisciplineWitness ==
    /\ check.service.Protocol = "host-command"
    /\ check.pc = "done"
    /\ check.expiredRunning
    /\ check.kills = 1
    /\ check.proc = "reaped"
    /\ check.service.Response = "up"
    /\ check.env.stdout = "up"
    /\ updateChannel[1].IsUp

(***************************************************************************)
(* Claims about the renderer's snapshot, the configuration checks, the    *)
(* reconciliation frame and the shutdown of the probe loops.               *)
(***************************************************************************)

\* C21. The data WebContentUpdater renders after releasing the read lock shares no
\* Host or Service storage with the shared State, in every iteration, those after
\* an update or shutdown signal included: data.Hosts[i].Services is never the
\* storage of sbd.Hosts[i].Services.
SnapshotIsDeepCopy == ~web.aliased

\* The fields a configuration must have, as TestValidateConfig expects them.
ServiceHasRequiredFields(service) ==
    /\ service.Name # ""
    /\ service.Protocol # ""
    /\ IF service.Protocol = "host-command"
       THEN service.Command # "" /\ service.Response # ""
       ELSE service.Port # ""

HostHasRequiredFields(host) ==
    /\ host.Name # ""
    /\ host.IP # ""
    /\ Len(host.Services) >= 1
    /\ \A i \in 1..Len(host.Services) : ServiceHasRequiredFields(host.Services[i])

HasRequiredFields(config) ==
    /\ config.Config.pingHosts # ""
    /\ config.Config.pingHosts = "yes" =>
          config.Config.pingInterval # "" /\ config.Config.pingTimeout # ""
    /\ config.Config.serviceInterval # ""
    /\ config.Config.serviceTimeout # ""
    /\ Len(config.Hosts) >= 1
    /\ \A h \in 1..Len(config.Hosts) : HostHasRequiredFields(config.Hosts[h])

\* C22. validateConfig returns an error if and only if a required field is
\* missing: main exits at the validation exactly when the configuration lacks
\* pingHosts, pingInterval or pingTimeout with pingHosts "yes", serviceInterval,
\* serviceTimeout, a host, a host's name, ip or services, a service's name or
\* protocol, its port unless it is host-command, or its command or response when
\* it is host-command; a configuration having all of these goes on to be parsed.
ValidateConfigIffMissing ==
    [][ MainValidateConfig =>
            /\ pcMain' = "exited" <=> ~HasRequiredFields(yamlConfig)
            /\ pcMain' = "parseConfigToScoreboard" <=> HasRequiredFields(yamlConfig)
      ]_vars

\* A host-command service without a port, with its command and response and
\* everything else required, has passed the validation.
ValidateConfigIffMissingWitness ==
    /\ pcMain = "parseConfigToScoreboard"
    /\ Len(yamlConfig.Hosts) = 1
    /\ Len(yamlConfig.Hosts[1].Services) = 1
    /\ yamlConfig.Hosts[1].Services[1].Protocol = "host-command"
    /\ yamlConfig.Hosts[1].Services[1].Port = ""
    /\ yamlConfig.Config.pingHosts = "no"
    /\ yamlConfig.Config.pingInterval = ""

\* The interval and timeout fields parse as durations (the ping ones count when
\* pingHosts is "yes").
DurationsParseable(config) ==
    /\ config.Config.pingHosts = "yes" =>
          /\ ~ParseDuration(config.Config.pingInterval).err
          /\ ~ParseDuration(config.Config.pingTimeout).err
    /\ ~ParseDuration(config.Config.serviceInterval).err
    /\ ~ParseDuration(config.Config.serviceTimeout).err

\* C23. parseConfigToScoreboard returns no error for every configuration that has
\* passed validateConfig and whose interval and timeout fields are parseable
\* durations (main goes on to Start()), and returns an error when serviceTimeout
\* is not a parseable duration (main exits).
ParseAcceptsValidated ==
    [][ MainParseConfigToScoreboard =>
            /\ DurationsParseable(yamlConfig) => pcMain' = "Start"
            /\ ParseDuration(yamlConfig.Config.serviceTimeout).err => pcMain' = "exited"
      ]_vars

(***************************************************************************)
(* The Multiplier: Multiply receives from SourceChannel and starts one     *)
(* goroutine per registered destination channel to send the value on.      *)
(* A channel is its buffer and the queue of the senders blocked on it; the *)
(* two critical sections under mult.lock contain no blocking operation and *)
(* are one step each.                                                      *)
(***************************************************************************)
\* Values the producer sends on SourceChannel (1..MaxValues, in this order), and
\* destination channels that get registered.
MaxValues == 2
MaxDest == 2

\* make(chan interface{}, channelLen): unbuffered and buffered channels
Capacities == {0, 1}

MultUnchanged ==
    UNCHANGED << now, hosts, Config, serviceLock, updateChannel, updateSignal,
                 shutdownSignals, pcMain, timer, pingChecker, serviceChecker,
                 pcUpdater, updaterSleep, isWriteLocked, isReadLocked, update,
                 web, inflight, burstWriteLocks, trackerCall, obs, lastDequeued,
                 batch, check, yamlConfig, probes >>

\* mult := NewMultiplier(source); go mult.Multiply()
MultiplierInit ==
    /\ now = 0
    /\ hosts = ConfiguredHosts
    /\ Config = ConfiguredConfig
    /\ serviceLock = NoLock
    /\ updateChannel = << >>
    /\ updateSignal = 0
    /\ shutdownSignals = [ ch \in {"ping", "service", "updater", "template"} |-> 0 ]
    /\ pcMain = "AfterFunc"
    /\ timer = [ pc |-> "unset", after |-> 0 ]
    /\ pingChecker = Loop("off")
    /\ serviceChecker = Loop("off")
    /\ pcUpdater = "off"
    /\ updaterSleep = 0
    /\ isWriteLocked = FALSE
    /\ isReadLocked = FALSE
    /\ update = NoUpdate
    /\ web = [ pc |-> "off", mode |-> "init", sleep |-> 0, aliased |-> FALSE ]
    /\ inflight = [ t \in Targets |-> 0 ]
    /\ burstWriteLocks = 0
    /\ trackerCall = [ t \in Targets |-> NoSetUp ]
    /\ obs = NoObservation
    /\ lastDequeued = [ t \in Targets |-> NoneDequeued ]
    /\ batch = NoBatch
    /\ check = NoCheck
    /\ yamlConfig = NoYamlConfig
    /\ probes = NoProbes
    /\ \E sourceCap \in Capacities :
          mult = [ pc |-> "Recv",             \* position of Multiply
                   x |-> 0,                   \* Multiply's x
                   next |-> 1,                \* the producer's next value
                   closed |-> FALSE,          \* close(source) was called
                   sourceCap |-> sourceCap,
                   SourceChannel |-> << >>,   \* the buffer of the source channel
                   destinationChannels |-> << >>,
                   senders |-> {},            \* goroutines started, not yet at their send
                   got |-> << >>,             \* per destination, what its reader received
                   registeredAt |-> << >> ]   \* per value, len(destinationChannels) at its receipt

\* RegisterChannel(ch), or the closure of ChannelGenerator:
\* newChannel := make(chan interface{}, channelLen); mult.RegisterChannel(newChannel)
RegisterChannel ==
    /\ mult.pc # "off"
    /\ Len(mult.destinationChannels) < MaxDest
    /\ \E channelLen \in Capacities :
          mult' = [mult EXCEPT
                     !.destinationChannels =
                         Append(@, [ cap |-> channelLen, buf |-> << >>, sendq |-> << >> ]),
                     !.got = Append(@, << >>)]
    /\ MultUnchanged

\* The producer sends its next value on a buffered source channel with room.
SourceSend ==
    /\ mult.pc # "off"
    /\ ~mult.closed
    /\ mult.next <= MaxValues
    /\ Len(mult.SourceChannel) < mult.sourceCap
    /\ mult' = [mult EXCEPT !.SourceChannel = Append(@, mult.next), !.next = @ + 1]
    /\ MultUnchanged

\* The producer closes the source channel.
SourceClose ==
    /\ mult.pc # "off"
    /\ ~mult.closed
    /\ mult' = [mult EXCEPT !.closed = TRUE]
    /\ MultUnchanged

\* x, ok := channel.Recv() with ok true: the head of the buffer, or, the buffer
\* being empty, the value of a producer that sends now.
MultiplyRecv ==
    /\ mult.pc = "Recv"
    /\ IF mult.SourceChannel # << >>
       THEN mult' = [mult EXCEPT !.pc = "Lock", !.x = Head(mult.SourceChannel),
                                 !.SourceChannel = Tail(@),
                                 !.registeredAt = Append(@, Len(mult.destinationChannels))]
       ELSE /\ ~mult.closed
            /\ mult.next <= MaxValues
            /\ mult' = [mult EXCEPT !.pc = "Lock", !.x = mult.next, !.next = @ + 1,
                                    !.registeredAt = Append(@, Len(mult.destinationChannels))]
    /\ MultUnchanged

\* x, ok := channel.Recv() with ok false: the channel is closed and drained
MultiplyReturn ==
    /\ mult.pc = "Recv"
    /\ mult.SourceChannel = << >>
    /\ mult.closed
    /\ mult' = [mult EXCEPT !.pc = "returned"]
    /\ MultUnchanged

\* for _, ch := range mult.destinationChannels only reaching the first channel
SpawnedToFirst(n, x) == { << c, x >> : c \in 1..Min(n, 1) }

\* for _, ch := range mult.destinationChannels { go func(channel) { channel <- x } (ch) }
Spawned(n, x) == { << c, x >> : c \in 1..n }

\* mult.lock.Lock(); the range loop; mult.lock.Unlock()
MultiplyFanOut ==
    /\ mult.pc = "Lock"
    /\ mult' = [mult EXCEPT !.pc = "Recv",
                            !.senders = @ \cup Spawned(Len(mult.destinationChannels), mult.x)]
    /\ MultUnchanged

\* channel <- x.Interface() in a started goroutine: into the buffer if it has
\* room, otherwise the goroutine blocks at the end of the channel's send queue.
SenderSend(c, x) ==
    /\ mult.pc # "off"
    /\ << c, x >> \in mult.senders
    /\ LET ch == mult.destinationChannels[c]
       IN  mult' = [mult EXCEPT
                      !.senders = @ \ { << c, x >> },
                      !.destinationChannels[c] =
                          IF Len(ch.buf) < ch.cap
                          THEN [ch EXCEPT !.buf = Append(@, x)]
                          ELSE [ch EXCEPT !.sendq = Append(@, x)]]
    /\ MultUnchanged

\* The reader of destination c receives: the head of the buffer, whose place the
\* first blocked sender takes, or on an empty buffer the first blocked sender's value.
DestRecv(c) ==
    /\ mult.pc # "off"
    /\ c <= Len(mult.destinationChannels)
    /\ LET ch == mult.destinationChannels[c]
       IN  /\ ch.buf # << >> \/ ch.sendq # << >>
           /\ mult' = [mult EXCEPT
                         !.got[c] = Append(@, IF ch.buf # << >> THEN Head(ch.buf)
                                              ELSE Head(ch.sendq)),
                         !.destinationChannels[c] =
                             IF ch.buf # << >>
                             THEN IF ch.sendq # << >>
                                  THEN [ch EXCEPT !.buf = Append(Tail(@), Head(ch.sendq)),
                                                  !.sendq = Tail(@)]
                                  ELSE [ch EXCEPT !.buf = Tail(@)]
                             ELSE [ch EXCEPT !.sendq = Tail(@)]]
    /\ MultUnchanged

MultiplierNext ==
    \/ RegisterChannel
    \/ SourceSend
    \/ SourceClose
    \/ MultiplyRecv
    \/ MultiplyReturn
    \/ MultiplyFanOut
    \/ \E c \in 1..MaxDest, x \in 1..MaxValues : SenderSend(c, x)
    \/ \E c \in 1..MaxDest : DestRecv(c)

\* The scheduler runs Multiply and every goroutine it started, and every
\* destination is read as long as something waits in it.
MultiplierFairness ==
    /\ WF_vars(MultiplyFanOut)
    /\ \A c \in 1..MaxDest, x \in 1..MaxValues : WF_vars(SenderSend(c, x))
    /\ \A c \in 1..MaxDest : WF_vars(DestRecv(c))

MultiplierSpec == MultiplierInit /\ [][MultiplierNext]_vars /\ MultiplierFairness

\* How often the reader of destination c has received x.
Deliveries(c, x) ==
    IF mult.pc # "off" /\ c <= Len(mult.got)
    THEN Cardinality({ i \in 1..Len(mult.got[c]) : mult.got[c][i] = x })
    ELSE 0

\* Destination c was registered when Multiply received x.
RegisteredAtReceipt(c, x) ==
    /\ mult.pc # "off"
    /\ x <= Len(mult.registeredAt)
    /\ c <= mult.registeredAt[x]

\* C24. Every value received from SourceChannel is eventually delivered, exactly
\* once, to every destination that was registered at the moment the value was
\* received, its reader reading; a destination registered later, at any point,
\* so receives every value received after its registration.
MultiplierBroadcast ==
    /\ [](\A c \in 1..MaxDest, x \in 1..MaxValues : Deliveries(c, x) <= 1)
    /\ \A c \in 1..MaxDest, x \in 1..MaxValues :
          RegisteredAtReceipt(c, x) ~> (Deliveries(c, x) = 1)

\* The second destination was registered after the first value was received and
\* before the second: it has received the second value only, the first
\* destination both.
MultiplierBroadcastWitness ==
    /\ mult.pc # "off"
    /\ Len(mult.registeredAt) = 2
    /\ mult.registeredAt[1] = 1
    /\ mult.registeredAt[2] = 2
    /\ Deliveries(1, 1) = 1
    /\ Deliveries(1, 2) = 1
    /\ Deliveries(2, 1) = 0
    /\ Deliveries(2, 2) = 1
    /\ mult.senders = {}

(***************************************************************************)
(* Claims about the frame of one reconciliation and the probe loops.       *)
(***************************************************************************)
\* The result StateUpdater compares in this step, if it compares one: the one it
\* dequeues, or the one it kept while its RLock() was pending.
Compared ==
    IF pcUpdater = "rlock" THEN update
    ELSE IF updateChannel # << >> THEN Head(updateChannel) ELSE NoUpdate

\* StateUpdater makes the scan and the comparison for a result in this step.
Compares ==
    /\ StateUpdaterReceive \/ StateUpdaterRLock
    /\ pcUpdater' # "rlock"

\* C25. When StateUpdater processes a result whose IsUp equals the current flag of
\* the addressed Host or Service, no field of any Host or Service changes and the
\* lock state does not escalate: it holds the read lock afterwards if it was Idle
\* or ReadLocked before, and keeps the write lock if it was WriteLocked.
UnchangedDoesNotEscalate ==
    [][ ( /\ Compares
          /\ TargetOf(hosts, Compared) # NoTarget
          /\ Entity(hosts, TargetOf(hosts, Compared)).isUp = Compared.IsUp )
        => /\ hosts' = hosts
           /\ isWriteLocked' = isWriteLocked
           /\ burstWriteLocks' = burstWriteLocks
           /\ serviceLock'.waiting = serviceLock.waiting
           /\ IF isWriteLocked
              THEN /\ serviceLock'.writer = "StateUpdater"
                   /\ ~isReadLocked'
              ELSE /\ isReadLocked'
                   /\ "StateUpdater" \in serviceLock'.readers
                   /\ serviceLock'.writer = "none"
      ]_vars

\* StateUpdater, Idle before, has dequeued a result that agrees with the flag of
\* its entity and now holds the read lock, with no write lock taken in this burst.
UnchangedDoesNotEscalateWitness ==
    /\ pcUpdater = "select"
    /\ isReadLocked
    /\ ~isWriteLocked
    /\ burstWriteLocks = 0
    /\ "StateUpdater" \in serviceLock.readers
    /\ \E t \in Targets :
          /\ lastDequeued[t].any
          /\ lastDequeued[t].IsUp = Entity(hosts, t).isUp

(***************************************************************************)
(* StateUpdater on its own over a host list in which an address and a      *)
(* service name occur more than once, given any short queue of results,    *)
(* those that address nothing included.                                    *)
(***************************************************************************)
\* Results queued in the update channel at the start.
MaxScan == 2

\* Two hosts with the same address; the first has two services of the same
\* name, the second a service of that name and one the first host lacks.
ScanHosts ==
    << NewHost("web", "10.0.0.1", << NewService("http", "tcp", ""),
                                     NewService("http", "tcp", "") >>),
       NewHost("db", "10.0.0.1", << NewService("http", "tcp", ""),
                                    NewService("sql", "tcp", "") >>) >>

\* Any ServiceUpdate: a known or an unknown address, a known or an unknown name.
ScanResults ==
    { ServiceUpdate(ip, serviceUpdate, isUp, name) :
          ip \in {"10.0.0.1", "10.0.0.9"}, serviceUpdate \in BOOLEAN,
          isUp \in BOOLEAN, name \in {"", "http", "sql"} }

ScanInit ==
    /\ now = 0
    /\ \E defaultState \in BOOLEAN :
          /\ hosts = [h \in 1..Len(ScanHosts) |->
                         ScoredHost(ScanHosts[h], 0, defaultState)]
          /\ Config = [ConfiguredConfig EXCEPT
                           !.DefaultServiceState = defaultState,
                           !.StopTime = ConfiguredConfig.CompetitionDuration]
    /\ \E n \in 0..MaxScan : updateChannel \in [1..n -> ScanResults]
    /\ serviceLock = NoLock
    /\ updateSignal = 0
    /\ shutdownSignals = [ ch \in {"ping", "service", "updater", "template"} |-> 0 ]
    /\ pcMain = "serving"
    /\ timer = [ pc |-> "armed", after |-> ConfiguredConfig.CompetitionDuration ]
    /\ pingChecker = Loop("off")
    /\ serviceChecker = Loop("off")
    /\ pcUpdater = "select"
    /\ updaterSleep = 0
    /\ isWriteLocked = FALSE
    /\ isReadLocked = FALSE
    /\ update = NoUpdate
    /\ web = [ pc |-> "off", mode |-> "init", sleep |-> 0, aliased |-> FALSE ]
    /\ inflight = [ t \in Targets |-> 0 ]
    /\ burstWriteLocks = 0
    /\ trackerCall = [ t \in Targets |-> NoSetUp ]
    /\ obs = NoObservation
    /\ lastDequeued = [ t \in Targets |-> NoneDequeued ]
    /\ batch = NoBatch
    /\ check = NoCheck
    /\ yamlConfig = NoYamlConfig
    /\ mult = NoMult
    /\ probes = NoProbes

ScanNext ==
    \/ Tick
    \/ StateUpdaterReceive
    \/ StateUpdaterDefault
    \/ StateUpdaterSignal

ScanSpec == ScanInit /\ [][ScanNext]_vars

\* The result StateUpdater works on in this step: the one it dequeues, or the one
\* it kept while RLock() or Lock() was pending.
Processed ==
    IF pcUpdater \in {"rlock", "wlock"} THEN update
    ELSE IF updateChannel # << >> THEN Head(updateChannel) ELSE NoUpdate

Processes == StateUpdaterReceive \/ StateUpdaterRLock \/ StateUpdaterLock

\* The entity a result addresses: for a ping result the first Host, in list
\* order, with the result's IP; for a service result the first Service with the
\* result's ServiceName inside that Host; NoTarget when there is none.
Addressed(u) ==
    LET matching == { h \in 1..Len(hosts) : hosts[h].IP = u.IP }
        first == CHOOSE h \in matching : \A g \in matching : h <= g
        named == { i \in 1..Len(hosts[first].Services) :
                      hosts[first].Services[i].Name = u.ServiceName }
    IN  IF matching = {} THEN NoTarget
        ELSE IF ~u.ServiceUpdate THEN << first, 0 >>
        ELSE IF named = {} THEN NoTarget
        ELSE << first, CHOOSE i \in named : \A j \in named : i <= j >>

\* C26. Processing one result changes the fields of at most one entity: for a ping
\* result only the first Host whose IP is the result's, for a service result only
\* the first Service of the result's name inside that Host; a ping result
\* changes no Service, a service result no Host's own flag or durations, and a
\* result that addresses nothing changes nothing.
AtMostOneEntityChanges ==
    [][ Processes =>
            /\ Identity(hosts') = Identity(hosts)
            /\ \A t \in Targets :
                  Tracking(Entity(hosts', t)) # Tracking(Entity(hosts, t))
                      => t = Addressed(Processed) ]_vars

\* Service results for the shared address and the shared name have flipped the
\* first service of the first host, a second later, and nothing else: not its
\* namesake next to it, not the second host's, and no host.
AtMostOneEntityChangesWitness ==
    /\ updateChannel = << >>
    /\ pcUpdater \in {"select", "signal"}
    /\ lastDequeued[<< 1, 1 >>].any
    /\ Entity(hosts, << 1, 1 >>).isUp # Config.DefaultServiceState
    /\ Entity(hosts, << 1, 1 >>).previousUpdateTime = 1
    /\ \A t \in Targets \ { << 1, 1 >> } :
          /\ Entity(hosts, t).isUp = Config.DefaultServiceState
          /\ Entity(hosts, t).previousUpdateTime = 0
          /\ ~lastDequeued[t].any

(***************************************************************************)
(* The running system with every CheckService task followed by the round  *)
(* of ServiceChecker that launched it: which tasks are outstanding, what   *)
(* each one observed, and the order in which they sent their results.      *)
(* The configuration has pingHosts off, so PingChecker returns at once.    *)
(***************************************************************************)
RaceInit ==
    /\ now = 0
    /\ hosts = ConfiguredHosts
    /\ Config = [ConfiguredConfig EXCEPT !.PingHosts = FALSE]
    /\ serviceLock = NoLock
    /\ updateChannel = << >>
    /\ updateSignal = 0
    /\ shutdownSignals = [ ch \in {"ping", "service", "updater", "template"} |-> 0 ]
    /\ pcMain = "AfterFunc"
    /\ timer = [ pc |-> "unset", after |-> 0 ]
    /\ pingChecker = Loop("off")
    /\ serviceChecker = Loop("off")
    /\ pcUpdater = "off"
    /\ updaterSleep = 0
    /\ isWriteLocked = FALSE
    /\ isReadLocked = FALSE
    /\ update = NoUpdate
    /\ web = [ pc |-> "off", mode |-> "init", sleep |-> 0, aliased |-> FALSE ]
    /\ inflight = [ t \in Targets |-> 0 ]
    /\ burstWriteLocks = 0
    /\ trackerCall = [ t \in Targets |-> NoSetUp ]
    /\ obs = NoObservation
    /\ lastDequeued = [ t \in Targets |-> NoneDequeued ]
    /\ batch = NoBatch
    /\ check = NoCheck
    /\ yamlConfig = NoYamlConfig
    /\ mult = NoMult
    /\ probes = NoProbes

\* ServiceChecker: go service.CheckService(...) for every service; RUnlock();
\* time.Sleep(sbd.Config.TimeBetweenServiceChecks).  The tasks are those of
\* this round.
RaceFanOut ==
    /\ serviceChecker.pc = "fanout"
    /\ inflight' = Launch(inflight, ServiceTargets)
    /\ probes' = [probes EXCEPT !.outstanding =
                     @ \cup { << t, serviceChecker.rounds + 1 >> : t \in ServiceTargets }]
    /\ serviceLock' = RUnlock(serviceLock, "ServiceChecker")
    /\ serviceChecker' = [ pc |-> "select", sleep |-> Config.TimeBetweenServiceChecks,
                          rounds |-> serviceChecker.rounds + 1 ]
    /\ UNCHANGED << now, hosts, Config, updateChannel, updateSignal,
                    shutdownSignals, pcMain, timer, pingChecker, pcUpdater,
                    updaterSleep, isWriteLocked, isReadLocked, update, web,
                    burstWriteLocks, trackerCall, obs, lastDequeued,
                    batch, check, yamlConfig, mult >>

\* A CheckService task that keeps its result to itself when a task of a later
\* round has already sent one for the same service.
RaceProbeReturnDropsStale(t, k) ==
    /\ << t, k >> \in probes.outstanding
    /\ \E sent \in { CheckService(hosts[t[1]].Services[t[2]], hosts[t[1]].IP, env) :
                        env \in EnvsOf(hosts[t[1]].Services[t[2]]) } :
          IF \E i \in 1..Len(probes.sent) :
                 probes.sent[i][1] = t /\ probes.sent[i][2] > k
          THEN /\ UNCHANGED updateChannel
               /\ probes' = [probes EXCEPT
                                !.outstanding = @ \ { << t, k >> },
                                !.observed = @ \cup { << t, k, sent[1].IsUp >> }]
          ELSE /\ Len(updateChannel) + Len(sent) <= UpdateChannelCap
               /\ updateChannel' = updateChannel \o sent
               /\ probes' = [probes EXCEPT
                                !.outstanding = @ \ { << t, k >> },
                                !.observed = @ \cup { << t, k, sent[1].IsUp >> },
                                !.sent = Append(@, << t, k >>)]
    /\ inflight' = [inflight EXCEPT ![t] = @ - 1]
    /\ UNCHANGED << now, hosts, Config, serviceLock, updateSignal, shutdownSignals,
                    pcMain, timer, pingChecker, serviceChecker, pcUpdater,
                    updaterSleep, isWriteLocked, isReadLocked, update, web,
                    burstWriteLocks, trackerCall, obs, lastDequeued,
                    batch, check, yamlConfig, mult >>

\* The CheckService task of service t launched in round k runs to its end: it
\* sends what CheckService sends, whatever other tasks for t have sent.
\* The send blocks while the channel is full.
RaceProbeReturn(t, k) ==
    /\ << t, k >> \in probes.outstanding
    /\ \E sent \in { CheckService(hosts[t[1]].Services[t[2]], hosts[t[1]].IP, env) :
                        env \in EnvsOf(hosts[t[1]].Services[t[2]]) } :
          /\ Len(updateChannel) + Len(sent) <= UpdateChannelCap
          /\ updateChannel' = updateChannel \o sent
          /\ probes' = [probes EXCEPT
                           !.outstanding = @ \ { << t, k >> },
                           !.observed = @ \cup { << t, k, sent[1].IsUp >> },
                           !.sent = Append(@, << t, k >>)]
    /\ inflight' = [inflight EXCEPT ![t] = @ - 1]
    /\ UNCHANGED << now, hosts, Config, serviceLock, updateSignal, shutdownSignals,
                    pcMain, timer, pingChecker, serviceChecker, pcUpdater,
                    updaterSleep, isWriteLocked, isReadLocked, update, web,
                    burstWriteLocks, trackerCall, obs, lastDequeued,
                    batch, check, yamlConfig, mult >>

RaceNext ==
    \/ Tick
    \/ MainAfterFunc
    \/ startScoring
    \/ MainLaunch
    \/ TimerFire
    \/ TimerLockCall
    \/ TimerLock
    \/ ServiceCheckerShutdown
    \/ ServiceCheckerDefault
    \/ ServiceCheckerRLock
    \/ RaceFanOut
    \/ \E t \in ServiceTargets, k \in 1..MaxProbes : RaceProbeReturn(t, k)
    \/ StateUpdaterShutdown
    \/ StateUpdaterReceive
    \/ StateUpdaterRLock
    \/ StateUpdaterLock
    \/ StateUpdaterDefault
    \/ StateUpdaterSignal
    \/ WebContentUpdaterCopy
    \/ WebContentUpdaterShutdown
    \/ WebContentUpdaterUpdate
    \/ WebContentUpdaterDefault

RaceSpec == RaceInit /\ [][RaceNext]_vars

\* The round of the task whose result for service t was sent last, and what the
\* task of round k observed of t.
LastSent(t) ==
    LET last == CHOOSE i \in 1..Len(probes.sent) :
                    /\ probes.sent[i][1] = t
                    /\ \A j \in (i + 1)..Len(probes.sent) : probes.sent[j][1] # t
    IN  probes.sent[last][2]

Observed(t, k) == (CHOOSE o \in probes.observed : o[1] = t /\ o[2] = k)[3]

\* StateUpdater has worked off everything that was sent.
Drained ==
    /\ updateChannel = << >>
    /\ pcUpdater \in {"select", "signal", "returned"}

\* C27. Nothing keeps the result of an older probe from overwriting that of a newer
\* one: every CheckService task that ran to its end has sent its result, whatever
\* was sent for its service before, and once the queue is drained the flag of a
\* service is what the task whose result was sent last observed, whichever round
\* launched it.
StaleResultOverwrites ==
    /\ \A o \in probes.observed :
          \E i \in 1..Len(probes.sent) : probes.sent[i] = << o[1], o[2] >>
    /\ Drained =>
          \A t \in ServiceTargets :
              (\E i \in 1..Len(probes.sent) : probes.sent[i][1] = t)
                  => Entity(hosts, t).isUp = Observed(t, LastSent(t))

\* The race: the tasks of round 1 and round 2 for the service were both
\* outstanding, the round-2 result was sent and applied first, the round-1 result
\* after it; they disagree, and the drained queue leaves the flag that the older
\* task observed.
StaleResultOverwritesWitness ==
    /\ Drained
    /\ \E t \in ServiceTargets :
          /\ probes.sent = << << t, 2 >>, << t, 1 >> >>
          /\ Observed(t, 1) # Observed(t, 2)
          /\ Entity(hosts, t).isUp = Observed(t, 1)
          /\ lastDequeued[t].any
          /\ lastDequeued[t].IsUp = Observed(t, 1)

(***************************************************************************)
(* Claims about the shutdown of the probe loops and the end of the         *)
(* competition.                                                            *)
(***************************************************************************)
\* The loop whose shutdown channel holds its signal stays where it is (in its
\* sleep or before its select) or returns: it starts no round and launches
\* nothing, and the signal stays in the channel until the loop takes it.
\* pings: the loop's probes are those of the hosts (the targets <<h, 0>>),
\* otherwise those of the services.
StopsAtSelect(loop, ch, pings) ==
    shutdownSignals[ch] > 0 =>
        /\ loop.pc = "select"
              => /\ loop'.pc \in {"select", "returned"}
                 /\ loop'.rounds = loop.rounds
                 /\ \A t \in DOMAIN inflight :
                       (t[2] = 0) = pings => inflight'[t] <= inflight[t]
        /\ shutdownSignals'[ch] = 0
              => /\ loop.pc = "select"
                 /\ loop'.pc = "returned"
                 /\ inflight' = inflight
        /\ loop'.rounds # loop.rounds
              => /\ loop.pc = "fanout"
                 /\ loop'.pc = "select"
                 /\ loop'.rounds = loop.rounds + 1
                 /\ shutdownSignals'[ch] > 0

\* C28. No fan-out after shutdown: a PingChecker or ServiceChecker iteration that
\* evaluates its select with the shutdown signal in its channel launches no probe
\* and returns; with the signal in the channel a loop fans out only if it was
\* already past its select, and then comes back to the select with the signal
\* still there, so at most that one fan-out follows the signal.
NoFanOutAfterShutdown ==
    [][ /\ StopsAtSelect(pingChecker, "ping", TRUE)
        /\ StopsAtSelect(serviceChecker, "service", FALSE) ]_vars

\* The timer has sent the signals: ServiceChecker has taken its signal at its
\* select and returned, PingChecker was past its select and still is to fan out.
NoFanOutAfterShutdownWitness ==
    /\ timer.pc \in {"fired", "lock", "done"}
    /\ serviceChecker.pc = "returned"
    /\ shutdownSignals["service"] = 0
    /\ pingChecker.pc = "fanout"
    /\ shutdownSignals["ping"] = 1

\* C29. The final page WebContentUpdater renders when it receives the shutdown
\* signal is computed with the frozen StopTime as reference: CompetitionEnded is
\* already true when that render evaluates State.GetUptime / State.GetDowntime.
FinalRenderUsesStopTime ==
    [][ (web.pc # "returned" /\ web'.pc = "returned") => Config.CompetitionEnded ]_vars

\* C30. The end timer fires at the stop time: the shutdown signals are never sent
\* and CompetitionEnded is never set to true at an instant earlier than
\* Config.StopTime.  When startScoring records StopTime the timer is still armed
\* and the instant it is due at, now + timer.after, is not before that StopTime.
EndTimerFiresAtStopTime ==
    [][ startScoring =>
            /\ timer.pc = "armed"
            /\ now + timer.after >= Config'.StopTime ]_vars

(***************************************************************************)
(* The competition window: State.TimeLeft as the renderer reads it, for    *)
(* any competition duration and at any instant after startScoring.         *)
(***************************************************************************)
MaxWindow == 2      \* WindowSpec: the longest competition duration, in seconds

\* TimeLeft that returns timeRemaining as it is computed.
TimeLeftUnclamped(cfg, at) == cfg.CompetitionDuration - (at - cfg.StartTime)

\* func (sbd *State) TimeLeft() time.Duration, called at instant at
TimeLeft(cfg, at) ==
    LET timeRemaining == cfg.CompetitionDuration - (at - cfg.StartTime)
    IN  IF timeRemaining < 0 THEN 0 ELSE timeRemaining

\* No TimeLeft has been read.
NoTimeLeft == [ at |-> -1, left |-> 0 ]

\* The state when main calls sbd.Start(), for every competition duration and
\* either default service state.
WindowInit ==
    /\ now = 0
    /\ hosts = ConfiguredHosts
    /\ \E d \in 0..MaxWindow, defaultState \in BOOLEAN :
          Config = [ConfiguredConfig EXCEPT !.CompetitionDuration = d,
                                            !.DefaultServiceState = defaultState]
    /\ serviceLock = NoLock
    /\ updateChannel = << >>
    /\ updateSignal = 0
    /\ shutdownSignals = [ ch \in {"ping", "service", "updater", "template"} |-> 0 ]
    /\ pcMain = "AfterFunc"
    /\ timer = [ pc |-> "unset", after |-> 0 ]
    /\ pingChecker = Loop("off")
    /\ serviceChecker = Loop("off")
    /\ pcUpdater = "off"
    /\ updaterSleep = 0
    /\ isWriteLocked = FALSE
    /\ isReadLocked = FALSE
    /\ update = NoUpdate
    /\ web = [ pc |-> "off", mode |-> "init", sleep |-> 0, aliased |-> FALSE ]
    /\ inflight = [ t \in Targets |-> 0 ]
    /\ burstWriteLocks = 0
    /\ trackerCall = [ t \in Targets |-> NoSetUp ]
    /\ obs = NoTimeLeft
    /\ lastDequeued = [ t \in Targets |-> NoneDequeued ]
    /\ batch = NoBatch
    /\ check = NoCheck
    /\ yamlConfig = NoYamlConfig
    /\ mult = NoMult
    /\ probes = NoProbes

\* data.TimeLeft = sbd.TimeLeft() in WebContentUpdater, which Start() has
\* launched: the instant of the call and the value it returned
WindowTimeLeft ==
    /\ web.pc # "off"
    /\ obs' = [ at |-> now, left |-> TimeLeft(Config, now) ]
    /\ UNCHANGED << now, hosts, trackerCall >>
    /\ TrackerUnchanged

WindowNext ==
    \/ TrackerTick
    \/ MainAfterFunc
    \/ startScoring
    \/ MainLaunch
    \/ WindowTimeLeft

WindowSpec == WindowInit /\ [][WindowNext]_vars

\* C31. TimeLeft returns max(0, CompetitionDuration - (now - StartTime)): the
\* value the renderer read is never negative, it is zero when it was read at or
\* after StopTime, and a read at the present instant, which is not earlier,
\* returns no more than it.
TimeLeftClamped ==
    obs.at >= 0 =>
        /\ obs.left >= 0
        /\ obs.left = Max(0, Config.StartTime + Config.CompetitionDuration - obs.at)
        /\ obs.at >= Config.StopTime => obs.left = 0
        /\ TimeLeft(Config, now) <= obs.left

\* TimeLeft was read after the stop time, the competition lasting a second or
\* more, and the clock has advanced since.
TimeLeftClampedWitness ==
    /\ obs.at > Config.StopTime
    /\ Config.CompetitionDuration > 0
    /\ now > obs.at
    /\ obs.left = 0

(***************************************************************************)
(* Claims about StateUpdater's locks, the end of the competition and the   *)
(* order of what the probes and the Multiplier deliver.                    *)
(***************************************************************************)
\* C32. Three-state lock discipline: StateUpdater's flags isReadLocked and
\* isWriteLocked are never both true and they agree with the lock it holds:
\* isReadLocked exactly when it holds a read lock of serviceLock, isWriteLocked
\* exactly when it holds the write lock.
LockDiscipline ==
    /\ ~(isReadLocked /\ isWriteLocked)
    /\ isReadLocked <=> "StateUpdater" \in serviceLock.readers
    /\ isWriteLocked <=> serviceLock.writer = "StateUpdater"

\* StateUpdater has upgraded: it gave its read lock back and holds the write lock.
LockDisciplineWitness ==
    /\ isWriteLocked
    /\ ~isReadLocked
    /\ burstWriteLocks = 1
    /\ serviceLock.writer = "StateUpdater"
    /\ "StateUpdater" \notin serviceLock.readers

\* C33. StateUpdater never terminates while holding serviceLock: when it has
\* returned on the shutdown signal it holds neither the read lock nor the
\* write lock.
ReturnsWithoutLock ==
    pcUpdater = "returned" =>
        /\ ~isReadLocked
        /\ ~isWriteLocked
        /\ "StateUpdater" \notin serviceLock.readers
        /\ serviceLock.writer # "StateUpdater"

\* C34. No state flip after the end: once CompetitionEnded has been set to
\* true and the loops are running, no step of StateUpdater changes the flag,
\* a bucket or the flip timestamp of any Host or Service.
NoFlipAfterEnd ==
    [][ (Config.CompetitionEnded /\ pcMain = "serving") =>
            \A t \in Targets :
                Tracking(Entity(hosts', t)) = Tracking(Entity(hosts, t)) ]_vars

\* C35. CompetitionEnded is monotone: once it has been set to true no step of
\* Start, startScoring, the end timer or a loop sets it back to false.
CompetitionEndedMonotone ==
    [][ Config.CompetitionEnded => Config'.CompetitionEnded ]_vars

\* C36. The host-command watchdog sends its kill signal only to a child that
\* is still running: no SIGKILL goes to the process id of a child that
\* cmd.Wait has already reaped, and none is sent when cmd.Wait had returned
\* by the time the timeout expired.
KillOnlyRunningChild ==
    /\ ~check.killedReaped
    /\ check.expiredReaped => check.kills = 0

\* C37. Multiplier preserves order: the values the reader of a destination
\* channel has received are in the order in which Multiply received them from
\* SourceChannel (the producer numbers its values in the order it sends them).
MultiplierPreservesOrder ==
    mult.pc # "off" =>
        \A c \in 1..Len(mult.got) :
            \A i, j \in 1..Len(mult.got[c]) :
                i < j => mult.got[c][i] < mult.got[c][j]

\* C38. The lock-upgrade gap is harmless: while StateUpdater has released its
\* read lock and waits for the write lock, no step changes a Host or a Service,
\* the update it holds still contradicts the flag of the entity it addresses,
\* and the SetUp call that follows the upgrade flips that flag.
UpgradeGapHarmless ==
    [][ /\ pcUpdater' = "wlock" => Contradicts(hosts', update')
        /\ pcUpdater = "wlock" =>
              IF pcUpdater' = "wlock"
              THEN hosts' = hosts /\ update' = update
              ELSE /\ isWriteLocked'
                   /\ Entity(hosts', TargetOf(hosts, update)).isUp = update.IsUp
                   /\ Entity(hosts', TargetOf(hosts, update)).isUp
                          # Entity(hosts, TargetOf(hosts, update)).isUp ]_vars

\* StateUpdater has waited for the write lock behind the end timer, which
\* asked for it first and has had it in between; nothing keeps the lock from
\* StateUpdater now, and the update it holds still contradicts.
UpgradeGapHarmlessWitness ==
    /\ pcUpdater = "wlock"
    /\ serviceLock.waiting = << "StateUpdater" >>
    /\ serviceLock.readers = {}
    /\ timer.pc = "done"
    /\ Config.CompetitionEnded
    /\ ~isReadLocked
    /\ Contradicts(hosts, update)

(***************************************************************************)
(* The update channel at shutdown: one host-command service probed every   *)
(* second by probes that take long to return, until the competition ends.  *)
(***************************************************************************)
MaxRounds == 11     \* DrainSpec: the rounds of ServiceChecker, at most

\* A scoreboard of one host with one host-command service whose response
\* pattern matches every output, and the Config of a competition that lasts as
\* long as MaxRounds rounds, without ping checks.
DrainInit ==
    /\ now = 0
    /\ hosts = << NewHost("web", "10.0.0.1",
                          << NewService("probe", "host-command", ".*") >>) >>
    /\ Config = [ConfiguredConfig EXCEPT !.PingHosts = FALSE,
                                         !.TimeBetweenPingChecks = 0,
                                         !.TimeBetweenServiceChecks = 1,
                                         !.CompetitionDuration = MaxRounds]
    /\ serviceLock = NoLock
    /\ updateChannel = << >>
    /\ updateSignal = 0
    /\ shutdownSignals = [ ch \in {"ping", "service", "updater", "template"} |-> 0 ]
    /\ pcMain = "AfterFunc"
    /\ timer = [ pc |-> "unset", after |-> 0 ]
    /\ pingChecker = Loop("off")
    /\ serviceChecker = Loop("off")
    /\ pcUpdater = "off"
    /\ updaterSleep = 0
    /\ isWriteLocked = FALSE
    /\ isReadLocked = FALSE
    /\ update = NoUpdate
    /\ web = [ pc |-> "off", mode |-> "init", sleep |-> 0, aliased |-> FALSE ]
    /\ inflight = [ t \in Targets |-> 0 ]
    /\ burstWriteLocks = 0
    /\ trackerCall = [ t \in Targets |-> NoSetUp ]
    /\ obs = NoObservation
    /\ lastDequeued = [ t \in Targets |-> NoneDequeued ]
    /\ batch = NoBatch
    /\ check = NoCheck
    /\ yamlConfig = NoYamlConfig
    /\ mult = NoMult
    /\ probes = NoProbes

\* ServiceChecker, default: sbd.serviceLock.RLock() is called
DrainServiceCheckerDefault ==
    /\ serviceChecker.pc = "select"
    /\ serviceChecker.sleep = 0
    /\ shutdownSignals["service"] = 0
    /\ serviceChecker.rounds < MaxRounds
    /\ IF RLockable(serviceLock)
       THEN /\ serviceLock' = RLock(serviceLock, "ServiceChecker")
            /\ serviceChecker' = [serviceChecker EXCEPT !.pc = "fanout"]
       ELSE /\ serviceChecker' = [serviceChecker EXCEPT !.pc = "rlock"]
            /\ UNCHANGED serviceLock
    /\ UNCHANGED << now, hosts, Config, updateChannel, updateSignal,
                    shutdownSignals, pcMain, timer, pingChecker, pcUpdater,
                    updaterSleep, isWriteLocked, isReadLocked, update, web,
                    inflight, burstWriteLocks, trackerCall, obs, lastDequeued,
                    batch, check, yamlConfig, mult, probes >>

\* Start(), the end timer, ServiceChecker and its probes, StateUpdater and the
\* renderer.  No result contradicts the default state here, so StateUpdater
\* asks for no write lock, no RLock() finds a writer waiting ahead of it, and
\* nothing is put on updateSignal.
DrainNext ==
    \/ Tick
    \/ MainAfterFunc
    \/ startScoring
    \/ MainLaunch
    \/ TimerFire
    \/ TimerLockCall
    \/ TimerLock
    \/ ServiceCheckerShutdown
    \/ DrainServiceCheckerDefault
    \/ ServiceCheckerFanOut
    \/ \E t \in ServiceTargets : ProbeReturn(t)
    \/ StateUpdaterShutdown
    \/ StateUpdaterReceive
    \/ StateUpdaterRLock
    \/ StateUpdaterDefault
    \/ WebContentUpdaterCopy
    \/ WebContentUpdaterShutdown
    \/ WebContentUpdaterDefault

DrainSpec == DrainInit /\ [][DrainNext]_vars

\* C39. Every probe task that was launched completes its send on the update
\* channel and terminates: whenever a probe is in flight, the channel has room
\* for its result or StateUpdater, the only receiver, has not returned and can
\* make room.
ProbesCanComplete ==
    (\E t \in Targets : inflight[t] > 0) =>
        \/ Len(updateChannel) < UpdateChannelCap
        \/ pcUpdater # "returned"

\* C40. In each probe loop every fan-out of probes is preceded by a sleep of
\* the configured interval: once a loop has launched probes, at least one full
\* interval has passed since startScoring, after which the loops were started
\* (stated for the instants below the horizon of the clock, which it tells apart).
SleepsBeforeFanOut ==
    now < MaxTime =>
        /\ pingChecker.rounds > 0
              => now - Config.StartTime >= Config.TimeBetweenPingChecks
        /\ serviceChecker.rounds > 0
              => now - Config.StartTime >= Config.TimeBetweenServiceChecks

====
